---- MODULE Spec2Model ----
(***************************************************************************)
(* State-machine model of the migration-extras CLI: the per-resource       *)
(* migrators (teams, variables, secrets, packages, LFS) and the dispatch    *)
(* in cli.js.  Each migrator has its own specification (SpecTeams, ...):    *)
(* one run of the CLI executes exactly one migrator, so the migrators       *)
(* share the run-level variables pc, dryRun and calls and leave the         *)
(* variables of the other migrators untouched.                              *)
(***************************************************************************)
EXTENDS Integers, Sequences, FiniteSets, TLC

(***************************************************************************)
(* Bounds of the model.                                                     *)
(***************************************************************************)
MaxTeams == 3
MaxMembers == 1
MaxRepos == 1
MaxVarRepos == 2
MaxVarNames == 2
MaxSecrets == 2
MaxPackages == 2
MaxVersions == 1
MaxFiles == 3
MaxConcurrency == 2

(***************************************************************************)
(* Run-level state.                                                         *)
(*   pc      position of the running migration function                     *)
(*   dryRun  the value the migration function tests                         *)
(*   calls   the requests issued to the target organization, in order       *)
(***************************************************************************)
VARIABLES pc, dryRun, calls

(***************************************************************************)
(* Team migration state (src/migrations/teams.js).                          *)
(*   sourceTeams      the listing teams.list returns for the source org     *)
(*   srcMembers       per team slug, the logins listMembersInOrg returns    *)
(*   srcTeamRepos     per team slug, the repos listReposInOrg returns       *)
(*   usernameMappings the Map loadUsernameMappings returns                  *)
(*   targetRepos      the repositories that exist in the target org         *)
(*   sortedTeams      the array migrateTeams iterates                       *)
(*   teamIdx          position of the for-of loop over sortedTeams          *)
(*   teamMap          the in-memory Map slug -> created/recorded team       *)
(*   teamHierarchy    the report logged at the end of migrateTeams          *)
(*   targetIdpGroups  the IdP groups the IdP-group variant of migrateTeams  *)
(*                    (src/migrations/secrets.js 281-636) fetched           *)
(***************************************************************************)
VARIABLES sourceTeams, srcMembers, srcTeamRepos, usernameMappings, targetRepos,
          sortedTeams, teamIdx, teamMap, teamHierarchy, targetIdpGroups

(***************************************************************************)
(* Variable migration state (src/variables.js, which holds two definitions  *)
(* of migrateVariables: the earlier one at lines 1-115, "legacy", and the   *)
(* refactored one at lines 130-278, "current").                             *)
(*   varImpl            which of the two definitions runs                   *)
(*   srcRepos           the repositories repos.listForOrg returns           *)
(*   srcRepoVars        per repository, the names listRepoVariables returns *)
(*   srcOrgVars         the names listOrgVariables returns                  *)
(*   repoTask, orgTask  the repository side and the organization side       *)
(*   perRepo            per repository, its listing/variables task          *)
(*   varTask            per variable, its create task                       *)
(*   createCalls        per variable, the create calls issued to the target *)
(*   variableMigrations the {variables, errors} object the tasks push to    *)
(*   printed            what console.log printed                            *)
(***************************************************************************)
VARIABLES varImpl, srcRepos, srcRepoVars, srcOrgVars, repoTask, orgTask, perRepo,
          varTask, createCalls, variableMigrations, printed

(***************************************************************************)
(* Command-line state (src/cli.js).                                         *)
(*   argv      the parsed command line: component and options               *)
(*   env       process.env: SOURCE_ORG, TARGET_ORG, SOURCE_TOKEN,           *)
(*             TARGET_TOKEN                                                 *)
(*   clients   the credential each created client authenticates with        *)
(*   received  the parameters of the dispatched migration function, bound   *)
(*             by position to the arguments runMigration passes             *)
(*   exitCode  the process exit code, NotExited while running               *)
(***************************************************************************)
VARIABLES argv, env, clients, received, exitCode

(***************************************************************************)
(* Secret migration state (src/migrations/secrets.js).                      *)
(*   secretsCsv       secrets_to_migrate.csv: whether it can be read, and   *)
(*                    its parsed rows                                       *)
(*   orgPublicKey     the organization public key fetched once per run      *)
(*   secretTask       per CSV row, the position of its processSecret call,  *)
(*                    the key and the ciphertext it holds, whether its      *)
(*                    catch has logged                                      *)
(*   checkResults     secrets_check_results.csv written by the dry run      *)
(*   destinationKey   per scope (the organization, a repository), the       *)
(*                    generation of the key pair the destination holds      *)
(*   lastFetched      per scope, the public key response the run received   *)
(*                    last                                                  *)
(*   sourceVisibility per secret name, the visibility of the source         *)
(*                    organization's secret of that name                    *)
(***************************************************************************)
VARIABLES secretsCsv, orgPublicKey, secretTask, checkResults, destinationKey, lastFetched,
          sourceVisibility

(***************************************************************************)
(* Package migration state (src/migrations/packages.js).                    *)
(*   srcPackages      the source organization's packages, as listed         *)
(*   pkgTargetRepos   the repositories of the target organization           *)
(*   targetPackages   the packages the target holds when the run starts     *)
(*   concurrency      the parsed MAVEN_CONCURRENCY                          *)
(*   pkgIdx, verIdx   the package and version being processed               *)
(*   chunk            the chunk of the running Promise.all                  *)
(*   inFlight         the files of that chunk still being transferred       *)
(*   orphans          transfers still running after their Promise.all       *)
(*                    rejected                                              *)
(*   staging          the files written under packages/                     *)
(*   uploaded         the files the target accepted                         *)
(*   downloadFailed, uploadFailed   the transfers that failed               *)
(***************************************************************************)
VARIABLES srcPackages, pkgTargetRepos, targetPackages, concurrency, pkgIdx, verIdx,
          chunk, inFlight, orphans, staging, uploaded, downloadFailed, uploadFailed

(***************************************************************************)
(* Source-side listings.                                                    *)
(*   atSource   per listing endpoint, the items the source organization     *)
(*              holds, in the order the endpoint serves them                *)
(*   yielded    per listing endpoint, the items the migration's listing     *)
(*              function returned to its caller, NotListed before the call  *)
(***************************************************************************)
VARIABLES atSource, yielded

runVars == <<pc, dryRun, calls>>
cliVars == <<argv, env, clients, received, exitCode>>
secretVars == <<secretsCsv, orgPublicKey, secretTask, checkResults, destinationKey,
                lastFetched, sourceVisibility>>
packageVars == <<srcPackages, pkgTargetRepos, targetPackages, concurrency, pkgIdx, verIdx,
                 chunk, inFlight, orphans, staging, uploaded, downloadFailed, uploadFailed>>
variableVars == <<varImpl, srcRepos, srcRepoVars, srcOrgVars, repoTask, orgTask,
                  perRepo, varTask, createCalls, variableMigrations, printed>>
teamVars == <<sourceTeams, srcMembers, srcTeamRepos, usernameMappings, targetRepos,
              sortedTeams, teamIdx, teamMap, teamHierarchy, targetIdpGroups>>
listingVars == <<atSource, yielded>>
vars == <<runVars, cliVars, secretVars, packageVars, teamVars, variableVars, listingVars>>

\* What the actions of one migrator leave alone.
nonTeamVars == <<cliVars, secretVars, packageVars, variableVars, listingVars>>
nonVariableVars == <<calls, cliVars, secretVars, packageVars, teamVars, listingVars>>
nonCliVars == <<calls, secretVars, packageVars, teamVars, variableVars, listingVars>>
nonSecretVars == <<cliVars, packageVars, teamVars, variableVars, listingVars>>
nonPackageVars == <<cliVars, secretVars, teamVars, variableVars, listingVars>>

(***************************************************************************)
(* The state of a migrator that is not the one the run dispatched.          *)
(***************************************************************************)
NoReport == [emitted |-> FALSE, value |-> <<>>]

\* A migration function called directly rather than through the CLI.
ListingsIdle ==
  /\ atSource = <<>>
  /\ yielded = <<>>

CliIdle ==
  /\ argv = <<>>
  /\ env = <<>>
  /\ clients = <<>>
  /\ received = <<>>
  /\ exitCode = -1

SecretsIdle ==
  /\ secretsCsv = <<>>
  /\ orgPublicKey = <<>>
  /\ secretTask = <<>>
  /\ checkResults = NoReport
  /\ destinationKey = <<>>
  /\ lastFetched = <<>>
  /\ sourceVisibility = <<>>

PackagesIdle ==
  /\ srcPackages = <<>>
  /\ pkgTargetRepos = {}
  /\ targetPackages = {}
  /\ concurrency = 0
  /\ pkgIdx = 0
  /\ verIdx = 0
  /\ chunk = 0
  /\ inFlight = {}
  /\ orphans = {}
  /\ staging = {}
  /\ uploaded = {}
  /\ downloadFailed = {}
  /\ uploadFailed = {}

TeamsIdle ==
  /\ sourceTeams = <<>>
  /\ srcMembers = <<>>
  /\ srcTeamRepos = <<>>
  /\ usernameMappings = <<>>
  /\ targetRepos = {}
  /\ sortedTeams = <<>>
  /\ teamIdx = 0
  /\ teamMap = <<>>
  /\ teamHierarchy = NoReport
  /\ targetIdpGroups = {}

VariablesIdle ==
  /\ varImpl = "none"
  /\ srcRepos = {}
  /\ srcRepoVars = <<>>
  /\ srcOrgVars = {}
  /\ repoTask = "idle"
  /\ orgTask = "idle"
  /\ perRepo = <<>>
  /\ varTask = <<>>
  /\ createCalls = <<>>
  /\ variableMigrations = <<>>
  /\ printed = NoReport

(***************************************************************************)
(* Generic helpers.                                                         *)
(***************************************************************************)
Range(s) == {s[i] : i \in 1..Len(s)}

Reverse(s) == [i \in 1..Len(s) |-> s[Len(s) + 1 - i]]

\* Sequences over S without repetition, of length at most n.
InjectiveSeqs(S, n) ==
  UNION {{s \in [1..k -> S] : \A i, j \in 1..k : i # j => s[i] # s[j]} : k \in 0..n}

Permutations1(n) == {s \in [1..n -> 1..n] : \A i, j \in 1..n : i # j => s[i] # s[j]}

\* Subsequence of s keeping the elements that are not in the set drop.
RECURSIVE Without(_, _)
Without(s, drop) ==
  IF s = <<>> THEN <<>>
  ELSE IF Head(s) \in drop THEN Without(Tail(s), drop)
  ELSE <<Head(s)>> \o Without(Tail(s), drop)

(***************************************************************************)
(* Teams.  A source team is [slug, parent]; parent = NoParent stands for    *)
(* team.parent === null.  The team's name and source id are its slug.       *)
(***************************************************************************)
NoParent == 0
TeamSlugs == 1..MaxTeams
Logins == 1..MaxMembers
RepoNames == 1..MaxRepos
Roles == {"member", "maintainer"}

\* The comparator handed to Array.prototype.sort.
listingOrderKept(a, b) == 0

compareTeams(a, b) ==
  IF a.parent # NoParent /\ a.parent = b.slug THEN 1
  ELSE IF b.parent # NoParent /\ b.parent = a.slug THEN -1
  ELSE 0

(***************************************************************************)
(* Array.prototype.sort as the engine Node runs it (V8's TimSort).  An      *)
(* array shorter than the minimum run length of 64 is one run: the leading  *)
(* run is counted (and reversed when strictly descending), the rest is      *)
(* inserted by binary insertion.  Indices are 1-based here.                 *)
(***************************************************************************)
RECURSIVE ExtendRun(_, _, _, _)
ExtendRun(arr, idx, isDescending, runLength) ==
  IF idx > Len(arr) THEN runLength
  ELSE LET order == compareTeams(arr[idx], arr[idx - 1])
       IN IF (isDescending /\ order >= 0) \/ (~isDescending /\ order < 0)
          THEN runLength
          ELSE ExtendRun(arr, idx + 1, isDescending, runLength + 1)

CountAndMakeRun(arr) ==
  LET isDescending == compareTeams(arr[2], arr[1]) < 0
      runLength == ExtendRun(arr, 3, isDescending, 2)
  IN [arr |-> IF isDescending
              THEN Reverse(SubSeq(arr, 1, runLength)) \o SubSeq(arr, runLength + 1, Len(arr))
              ELSE arr,
      runLength |-> runLength]

RECURSIVE BinarySearch(_, _, _, _)
BinarySearch(arr, pivot, left, right) ==
  IF left >= right THEN left
  ELSE LET mid == left + ((right - left) \div 2)
       IN IF compareTeams(pivot, arr[mid]) < 0
          THEN BinarySearch(arr, pivot, left, mid)
          ELSE BinarySearch(arr, pivot, mid + 1, right)

RECURSIVE BinaryInsertionSort(_, _)
BinaryInsertionSort(arr, start) ==
  IF start > Len(arr) THEN arr
  ELSE LET pivot == arr[start]
           left == BinarySearch(arr, pivot, 1, start)
           moved == SubSeq(arr, 1, left - 1) \o <<pivot>>
                    \o SubSeq(arr, left, start - 1)
                    \o SubSeq(arr, start + 1, Len(arr))
       IN BinaryInsertionSort(moved, start + 1)

sortTeamsByHierarchy(teams) ==
  IF Len(teams) < 2 THEN teams
  ELSE LET run == CountAndMakeRun(teams)
       IN BinaryInsertionSort(run.arr, run.runLength + 1)

(***************************************************************************)
(* Source-side reads of processTeam.                                        *)
(***************************************************************************)
\* membership.data.role, the role the source holds for a team member.
RoleAtSource(login) == IF login = 1 THEN "maintainer" ELSE "member"

\* fetchTeamMembers: one role lookup per listed member; a member whose
\* lookup fails maps to null and is filtered out.
fetchTeamMembers(members, roleOf, roleFail) ==
  LET kept == Without(members, roleFail)
  IN [i \in 1..Len(kept) |-> [login |-> kept[i], role |-> roleOf[kept[i]]]]

\* fetchTeamRepositories: admin > push > pull; a failed listing yields [].
repoPermission(repo) ==
  IF repo.admin THEN "admin" ELSE IF repo.push THEN "push" ELSE "pull"

fetchTeamRepositories(repos, listOk) ==
  IF listOk
  THEN [i \in 1..Len(repos) |-> [name |-> repos[i].name, permission |-> repoPermission(repos[i])]]
  ELSE <<>>

\* The replay that ignores the mapping file.
sourceUsername(mappings, login) == login

\* usernameMappings.get(login) || login
targetUsername(mappings, login) ==
  IF login \in DOMAIN mappings THEN mappings[login] ELSE login

(***************************************************************************)
(* Target-side writes of createTeamInTargetOrg.                             *)
(***************************************************************************)
\* The parent_team_id of the create call: the id of the parent's teamMap
\* entry when there is one, otherwise the field is left out (NoParent).
parentTeamId(team, tmap) ==
  IF team.parent # NoParent /\ team.parent \in DOMAIN tmap
  THEN tmap[team.parent].id
  ELSE NoParent

\* migrateTeamMembers: one membership call per member, failures logged.
migrateTeamMembers(slug, membersWithRoles, mappings, addFail) ==
  [i \in 1..Len(membersWithRoles) |->
     [op |-> "addOrUpdateMembershipForUserInOrg", team |-> slug,
      arg |-> targetUsername(mappings, membersWithRoles[i].login),
      value |-> membersWithRoles[i].role,
      ok |-> membersWithRoles[i].login \notin addFail]]

\* migrateTeamRepositories: one permission call per repository, failures
\* logged.  The target answers 404 for a repository it does not have.
migrateTeamRepositories(slug, repositories, tRepos, grantFail) ==
  [i \in 1..Len(repositories) |->
     [op |-> "addOrUpdateRepoPermissionsInOrg", team |-> slug,
      arg |-> repositories[i].name,
      value |-> repositories[i].permission,
      ok |-> repositories[i].name \in tRepos /\ repositories[i].name \notin grantFail]]

\* The teams.create request.
createCall(team, tmap, createOk) ==
  [op |-> "teams.create", team |-> team.slug, arg |-> parentTeamId(team, tmap),
   value |-> "", ok |-> createOk]

\* createTeamInTargetOrg: teams.create, then migrateTeamMembers, then
\* migrateTeamRepositories, all inside one try; when teams.create throws
\* nothing is stored and nothing is replayed.
createTeamInTargetOrg(team, tmap, membersWithRoles, repositories, mappings, tRepos, createOk, addFail, grantFail) ==
  IF createOk
  THEN <<createCall(team, tmap, TRUE)>>
       \o migrateTeamMembers(team.slug, membersWithRoles, mappings, addFail)
       \o migrateTeamRepositories(team.slug, repositories, tRepos, grantFail)
  ELSE <<createCall(team, tmap, FALSE)>>

\* Destination ids are handed out by the target in creation order.
NewTeamId(log) == Cardinality({i \in 1..Len(log) : log[i].op = "teams.create" /\ log[i].ok}) + 1

(***************************************************************************)
(* displayTeamHierarchy: the nested report.  teamMap.get(slug) of a team    *)
(* that was never stored is undefined and reading .members of it throws.    *)
(***************************************************************************)
RECURSIVE displayTeamHierarchy(_, _, _, _)
displayTeamHierarchy(teams, tmap, mappings, parentSlug) ==
  LET sel == SelectSeq(teams, LAMBDA t : t.parent = parentSlug)
      Node(t) ==
        IF t.slug \notin DOMAIN tmap THEN [threw |-> TRUE, value |-> <<>>]
        ELSE LET kids == displayTeamHierarchy(teams, tmap, mappings, t.slug)
                 info == tmap[t.slug]
                 members == [i \in 1..Len(info.members) |->
                               [sourceLogin |-> info.members[i].login,
                                targetLogin |-> targetUsername(mappings, info.members[i].login),
                                role |-> info.members[i].role]]
                 base == [name |-> t.slug, members |-> members,
                          repositories |-> info.repositories]
             IN IF kids.threw THEN [threw |-> TRUE, value |-> <<>>]
                ELSE [threw |-> FALSE,
                      value |-> IF Len(kids.value) > 0
                                THEN base @@ [children |-> kids.value]
                                ELSE base]
      nodes == [i \in 1..Len(sel) |-> Node(sel[i])]
  IN IF \E i \in 1..Len(sel) : nodes[i].threw
     THEN [threw |-> TRUE, value |-> <<>>]
     ELSE [threw |-> FALSE, value |-> [i \in 1..Len(sel) |-> nodes[i].value]]

(***************************************************************************)
(* Source organizations the team migration is run on.                       *)
(***************************************************************************)
RECURSIVE IsRooted(_, _, _)
IsRooted(parentOf, t, fuel) ==
  IF t = NoParent THEN TRUE
  ELSE IF fuel = 0 THEN FALSE
  ELSE IsRooted(parentOf, parentOf[t], fuel - 1)

\* Parent maps over teams 1..n that form a forest (the platform forbids cycles).
Forests(n) ==
  {p \in [1..n -> 0..n] : \A t \in 1..n : IsRooted(p, t, n)}

\* Every listing order of every forest of at most MaxTeams teams.
TeamListings ==
  UNION {{[i \in 1..n |-> [slug |-> order[i], parent |-> p[order[i]]]] :
            order \in Permutations1(n), p \in Forests(n)} : n \in 0..MaxTeams}


\* A whole organization: any forest in any listing order; the teams have
\* no members and no repositories.
InitTeams ==
  /\ pc = "start"
  /\ dryRun \in BOOLEAN
  /\ calls = <<>>
  /\ sourceTeams \in TeamListings
  /\ srcMembers = [t \in TeamSlugs |-> <<>>]
  /\ srcTeamRepos = [t \in TeamSlugs |-> <<>>]
  /\ usernameMappings = <<>>
  /\ targetRepos = {}
  /\ sortedTeams = <<>>
  /\ teamIdx = 0
  /\ teamMap = <<>>
  /\ teamHierarchy = NoReport
  /\ targetIdpGroups = {}
  /\ VariablesIdle
  /\ CliIdle
  /\ ListingsIdle
  /\ SecretsIdle
  /\ PackagesIdle

\* listReposInOrg answers: repositories in any order, each with its
\* admin and push permission flags.
RepoListings ==
  UNION {{[i \in 1..Len(ns) |-> [name |-> ns[i], admin |-> f[i][1], push |-> f[i][2]]] :
            f \in [1..Len(ns) -> BOOLEAN \X BOOLEAN]} : ns \in InjectiveSeqs(RepoNames, MaxRepos)}

\* Username mapping CSVs: some source logins mapped to a target login.
MappedLogin(login) == login + MaxMembers
UsernameMappingFiles ==
  UNION {{[l \in d |-> MappedLogin(l)]} : d \in SUBSET Logins}

\* One parentless team with members and repositories, a username mapping
\* and a target organization holding any subset of the repositories.
InitTeamReplay ==
  /\ pc = "start"
  /\ dryRun \in BOOLEAN
  /\ calls = <<>>
  /\ sourceTeams = <<[slug |-> 1, parent |-> NoParent]>>
  /\ \E m \in InjectiveSeqs(Logins, MaxMembers) :
       srcMembers = [t \in TeamSlugs |-> IF t = 1 THEN m ELSE <<>>]
  /\ \E r \in RepoListings :
       srcTeamRepos = [t \in TeamSlugs |-> IF t = 1 THEN r ELSE <<>>]
  /\ usernameMappings \in UsernameMappingFiles
  /\ targetRepos \in SUBSET RepoNames
  /\ sortedTeams = <<>>
  /\ teamIdx = 0
  /\ teamMap = <<>>
  /\ teamHierarchy = NoReport
  /\ targetIdpGroups = {}
  /\ VariablesIdle
  /\ CliIdle
  /\ ListingsIdle
  /\ SecretsIdle
  /\ PackagesIdle

(***************************************************************************)
(* migrateTeams, step by step.                                              *)
(***************************************************************************)
\* fetchSourceTeams followed by sortTeamsByHierarchy; a failed listing is
\* caught by migrateTeams' try/catch, which only logs.
FetchSourceTeams ==
  /\ pc = "start"
  /\ \E listOk \in BOOLEAN :
       IF listOk
       THEN /\ sortedTeams' = sortTeamsByHierarchy(sourceTeams)
            /\ teamIdx' = 1
            /\ pc' = "teams"
       ELSE /\ pc' = "done"
            /\ UNCHANGED <<sortedTeams, teamIdx>>
  /\ UNCHANGED <<dryRun, calls, sourceTeams, srcMembers, srcTeamRepos,
                 usernameMappings, targetRepos, teamMap, teamHierarchy, targetIdpGroups>>
  /\ UNCHANGED nonTeamVars

\* processTeam's branch on dryRun, in both variants: a dry run logs what it
\* would do and issues no request to the target; a live run issues the
\* requests of createTeamInTargetOrg.
liveWhateverTheFlag(dry, issued) == issued

processTeamCalls(dry, issued) == IF dry THEN <<>> ELSE issued

\* processTeam for the team at teamIdx, with createTeamInTargetOrg,
\* migrateTeamMembers and migrateTeamRepositories.
ProcessTeam ==
  /\ pc = "teams"
  /\ teamIdx <= Len(sortedTeams)
  /\ LET team == sortedTeams[teamIdx]
         members == srcMembers[team.slug]
         repos == srcTeamRepos[team.slug]
     IN \E membersOk \in BOOLEAN, roleOf \in [Range(members) -> Roles],
           roleFail \in SUBSET Range(members), reposOk \in BOOLEAN,
           createOk \in BOOLEAN, addFail \in SUBSET Range(members),
           grantFail \in SUBSET {repos[i].name : i \in 1..Len(repos)} :
          LET membersWithRoles == fetchTeamMembers(members, roleOf, roleFail)
              repositories == fetchTeamRepositories(repos, reposOk)
              created == [id |-> NewTeamId(calls), slug |-> team.slug,
                          members |-> membersWithRoles, repositories |-> repositories]
              recorded == [id |-> team.slug, slug |-> team.slug,
                           members |-> membersWithRoles, repositories |-> repositories]
              issued == createTeamInTargetOrg(team, teamMap, membersWithRoles, repositories,
                                              usernameMappings, targetRepos, createOk,
                                              addFail, grantFail)
          IN IF ~membersOk
             THEN \* listMembersInOrg threw: processTeam logs and returns
                  /\ roleFail = {} /\ ~reposOk /\ ~createOk /\ addFail = {} /\ grantFail = {}
                  /\ UNCHANGED <<calls, teamMap>>
             ELSE /\ dryRun => ~createOk
                  /\ ~createOk => addFail = {} /\ grantFail = {}
                  /\ calls' = calls \o processTeamCalls(dryRun, issued)
                  /\ teamMap' = IF dryRun THEN (team.slug :> recorded) @@ teamMap
                                ELSE IF createOk THEN (team.slug :> created) @@ teamMap
                                ELSE teamMap
  /\ teamIdx' = teamIdx + 1
  /\ UNCHANGED <<pc, dryRun, sourceTeams, srcMembers, srcTeamRepos, usernameMappings,
                 targetRepos, sortedTeams, teamHierarchy, targetIdpGroups>>
  /\ UNCHANGED nonTeamVars

\* After the loop: displayTeamHierarchy and the two logger.info lines.  A
\* throw inside displayTeamHierarchy lands in migrateTeams' catch.
DisplayTeamHierarchy ==
  /\ pc = "teams"
  /\ teamIdx > Len(sortedTeams)
  /\ LET h == displayTeamHierarchy(sortedTeams, teamMap, usernameMappings, NoParent)
     IN teamHierarchy' = IF h.threw THEN NoReport
                         ELSE [emitted |-> TRUE, value |-> h.value]
  /\ pc' = "done"
  /\ UNCHANGED <<dryRun, calls, sourceTeams, srcMembers, srcTeamRepos, usernameMappings,
                 targetRepos, sortedTeams, teamIdx, teamMap, targetIdpGroups>>
  /\ UNCHANGED nonTeamVars

NextTeams ==
  \/ FetchSourceTeams
  \/ ProcessTeam
  \/ DisplayTeamHierarchy

SpecTeams == InitTeams /\ [][NextTeams]_vars

SpecTeamReplay == InitTeamReplay /\ [][NextTeams]_vars

(***************************************************************************)
(* Properties of the team migration.                                        *)
(***************************************************************************)
SourceParent(slug) ==
  LET i == CHOOSE k \in 1..Len(sourceTeams) : sourceTeams[k].slug = slug
  IN sourceTeams[i].parent

CreateCalls == {i \in 1..Len(calls) : calls[i].op = "teams.create"}

\* C2: in a live run the create call of a child team is issued only after
\* the create call of its parent team, for every listing order and depth.
C2_ChildCreatedAfterParent ==
  \A i \in CreateCalls :
    SourceParent(calls[i].team) # NoParent =>
      \E j \in CreateCalls : j < i /\ calls[j].team = SourceParent(calls[i].team)

\* C3: with one level of nesting (T has parent P, P has no parent), if the
\* live run creates both T and P then T's create call carries the id the
\* destination returned for P as parent_team_id.
C3_ChildLinksToCreatedParent ==
  \A i, j \in CreateCalls :
    LET T == calls[i].team
        P == calls[j].team
    IN (/\ calls[i].ok /\ calls[j].ok
        /\ SourceParent(T) = P
        /\ SourceParent(P) = NoParent)
       => (P \in DOMAIN teamMap /\ calls[i].arg = teamMap[P].id)

\* C9 (team part): no repository-permission grant is issued for a
\* repository that does not exist in the target organization.
C9_GrantsOnlyForExistingRepos ==
  \A i \in 1..Len(calls) :
    calls[i].op = "addOrUpdateRepoPermissionsInOrg" => calls[i].arg \in targetRepos

\* C10 (team part): a finished team migration has emitted its hierarchy
\* report, also when creates failed or the team listing failed.
C10_TeamReportAlwaysEmitted ==
  pc = "done" => teamHierarchy.emitted


(***************************************************************************)
(* Variable migration (src/variables.js).                                   *)
(*                                                                          *)
(* A report entry is keyed by <<repo, name>>: OrgScope as repo is an        *)
(* organization variable ({org, name, ...}), NoName as name is an entry     *)
(* without a name ({repo, message} or {message}).  The two report lists     *)
(* are kept as multisets: key -> number of entries pushed.                  *)
(***************************************************************************)
OrgScope == 0
NoName == 0
VarRepos == 1..MaxVarRepos
VarNames == 1..MaxVarNames
VarItems == (VarRepos \cup {OrgScope}) \X VarNames
ReportKeys == (VarRepos \cup {OrgScope}) \X (VarNames \cup {NoName})

EmptyList == [k \in ReportKeys |-> 0]

\* list.push(entry) for every key in keys.
PushAll(list, keys) == [k \in ReportKeys |-> IF k \in keys THEN list[k] + 1 ELSE list[k]]

\* The guard in front of createRepoVariable: `if (dryRun)` at line 25 of the
\* legacy definition, `if (!dryRun)` at line 209 of the current one.
IssuesRepoCreate(impl, dry) == IF impl = "legacy" THEN dry ELSE ~dry

\* The guard in front of createOrgVariable: `if (!dryRun)` at lines 76 and 261.
IssuesOrgCreate(impl, dry) == ~dry

IssuesCreate(impl, dry, item) ==
  IF item[1] = OrgScope THEN IssuesOrgCreate(impl, dry) ELSE IssuesRepoCreate(impl, dry)

\* variables.map(variable => migrateVariable(...)): every task runs up to its
\* first await at once.  A task that issues the create call is left pending on
\* it; a task that does not pushes its entry to variables and is done.
SpawnVariableTasks(items) ==
  LET issuing == {it \in items : IssuesCreate(varImpl, dryRun, it)}
  IN /\ varTask' = [it \in VarItems |->
                      IF it \in issuing THEN "pending"
                      ELSE IF it \in items THEN "done" ELSE varTask[it]]
     /\ createCalls' = [it \in VarItems |->
                          IF it \in issuing THEN createCalls[it] + 1 ELSE createCalls[it]]
     /\ variableMigrations' =
          [variableMigrations EXCEPT !.variables = PushAll(@, items \ issuing)]

RepoItems(r) == {<<r, v>> : v \in srcRepoVars[r]}
OrgItems == {<<OrgScope, v>> : v \in srcOrgVars}

\* The task of a variable has returned: "done" without a create call,
\* "created" after a create call that returned, "refused" after one that
\* threw.
TaskOver(it) == varTask[it] \in {"done", "created", "refused"}

\* Promise.all over a repository's variable tasks has settled.
RepoSettled(r) ==
  \/ perRepo[r] = "failed"
  \/ perRepo[r] = "spawned" /\ \A it \in RepoItems(r) : TaskOver(it)

\* migrateRepoVariables (the repository loop of the legacy definition) has
\* resolved.
RepoSideResolved == repoTask = "spawned" /\ \A r \in srcRepos : RepoSettled(r)

\* migrateOrgVariables (the organization part of the legacy definition) has
\* resolved.
OrgSideResolved ==
  \/ orgTask = "failed"
  \/ orgTask = "spawned" /\ \A it \in OrgItems : TaskOver(it)

InitVariables ==
  /\ pc = "start"
  /\ dryRun \in BOOLEAN
  /\ calls = <<>>
  /\ varImpl \in {"legacy", "current"}
  /\ srcRepos \in {1..n : n \in 0..MaxVarRepos}
  /\ srcRepoVars \in [srcRepos -> {1..k : k \in 0..MaxVarNames}]
  /\ srcOrgVars \in {1..k : k \in 0..MaxVarNames}
  /\ repoTask = "idle"
  /\ orgTask = "idle"
  /\ perRepo = [r \in srcRepos |-> "idle"]
  /\ varTask = [it \in VarItems |-> "idle"]
  /\ createCalls = [it \in VarItems |-> 0]
  /\ variableMigrations = [variables |-> EmptyList, errors |-> EmptyList]
  /\ printed = NoReport
  /\ TeamsIdle
  /\ CliIdle
  /\ ListingsIdle
  /\ SecretsIdle
  /\ PackagesIdle

\* migrateVariables is entered.  current: Promise.all([migrateRepoVariables(),
\* migrateOrgVariables()]) starts both listings.  legacy: only the repository
\* listing is awaited; the organization part starts after the repository loop.
StartVariables ==
  /\ pc = "start"
  /\ pc' = "running"
  /\ repoTask' = "listing"
  /\ orgTask' = IF varImpl = "current" THEN "listing" ELSE "idle"
  /\ UNCHANGED <<dryRun, varImpl, srcRepos, srcRepoVars, srcOrgVars, perRepo, varTask,
                 createCalls, variableMigrations, printed>>
  /\ UNCHANGED nonVariableVars

\* repos.listForOrg answers.  On success every repository's variable listing
\* is requested.  On failure the rejection reaches the catch of migrateVariables
\* (Promise.all rejects at once in the current definition); the catch pushes
\* {message} and the report is printed.
ReposListed ==
  /\ pc = "running"
  /\ repoTask = "listing"
  /\ \E ok \in BOOLEAN :
       IF ok
       THEN /\ repoTask' = "spawned"
            /\ perRepo' = [r \in srcRepos |-> "listing"]
            /\ UNCHANGED <<pc, variableMigrations, printed>>
       ELSE /\ repoTask' = "failed"
            /\ variableMigrations' =
                 [variableMigrations EXCEPT !.errors = PushAll(@, {<<OrgScope, NoName>>})]
            /\ printed' = [emitted |-> TRUE, value |-> variableMigrations']
            /\ pc' = "done"
            /\ UNCHANGED perRepo
  /\ UNCHANGED <<dryRun, varImpl, srcRepos, srcRepoVars, srcOrgVars, orgTask, varTask,
                 createCalls>>
  /\ UNCHANGED nonVariableVars

\* listRepoVariables answers for repository r.  On failure the per-repository
\* catch pushes {repo, message}.
RepoVariablesListed ==
  /\ \E r \in srcRepos :
       /\ perRepo[r] = "listing"
       /\ \E ok \in BOOLEAN :
            IF ok
            THEN /\ perRepo' = [perRepo EXCEPT ![r] = "spawned"]
                 /\ SpawnVariableTasks(RepoItems(r))
            ELSE /\ perRepo' = [perRepo EXCEPT ![r] = "failed"]
                 /\ variableMigrations' =
                      [variableMigrations EXCEPT !.errors = PushAll(@, {<<r, NoName>>})]
                 /\ UNCHANGED <<varTask, createCalls>>
  /\ UNCHANGED <<pc, dryRun, varImpl, srcRepos, srcRepoVars, srcOrgVars, repoTask, orgTask,
                 printed>>
  /\ UNCHANGED nonVariableVars

\* legacy only: the repository loop is over (await Promise.all(promises)) and
\* listOrgVariables is requested.
StartOrgVariables ==
  /\ pc = "running"
  /\ varImpl = "legacy"
  /\ orgTask = "idle"
  /\ RepoSideResolved
  /\ orgTask' = "listing"
  /\ UNCHANGED <<pc, dryRun, varImpl, srcRepos, srcRepoVars, srcOrgVars, repoTask, perRepo,
                 varTask, createCalls, variableMigrations, printed>>
  /\ UNCHANGED nonVariableVars

\* listOrgVariables answers.  On failure {message} is pushed: by the catch of
\* migrateOrgVariables (current) or by the outer catch (legacy).
OrgVariablesListed ==
  /\ orgTask = "listing"
  /\ \E ok \in BOOLEAN :
       IF ok
       THEN /\ orgTask' = "spawned"
            /\ SpawnVariableTasks(OrgItems)
       ELSE /\ orgTask' = "failed"
            /\ variableMigrations' =
                 [variableMigrations EXCEPT !.errors = PushAll(@, {<<OrgScope, NoName>>})]
            /\ UNCHANGED <<varTask, createCalls>>
  /\ UNCHANGED <<pc, dryRun, varImpl, srcRepos, srcRepoVars, srcOrgVars, repoTask, perRepo,
                 printed>>
  /\ UNCHANGED nonVariableVars

\* createRepoVariable / createOrgVariable answers for one pending task: the
\* entry goes to variables on success and to errors on failure.
CreateVariableReturns ==
  /\ \E it \in VarItems :
       /\ varTask[it] = "pending"
       /\ \E ok \in BOOLEAN :
            /\ varTask' = [varTask EXCEPT ![it] = IF ok THEN "created" ELSE "refused"]
            /\ variableMigrations' =
                 IF ok
                 THEN [variableMigrations EXCEPT !.variables = PushAll(@, {it})]
                 ELSE [variableMigrations EXCEPT !.errors = PushAll(@, {it})]
  /\ UNCHANGED <<pc, dryRun, varImpl, srcRepos, srcRepoVars, srcOrgVars, repoTask, orgTask,
                 perRepo, createCalls, printed>>
  /\ UNCHANGED nonVariableVars

\* Both sides have resolved: console.log(JSON.stringify(variableMigrations)).
PrintVariableReport ==
  /\ pc = "running"
  /\ RepoSideResolved
  /\ OrgSideResolved
  /\ printed' = [emitted |-> TRUE, value |-> variableMigrations]
  /\ pc' = "done"
  /\ UNCHANGED <<dryRun, varImpl, srcRepos, srcRepoVars, srcOrgVars, repoTask, orgTask,
                 perRepo, varTask, createCalls, variableMigrations>>
  /\ UNCHANGED nonVariableVars

NextVariables ==
  \/ StartVariables
  \/ ReposListed
  \/ RepoVariablesListed
  \/ StartOrgVariables
  \/ OrgVariablesListed
  \/ CreateVariableReturns
  \/ PrintVariableReport

SpecVariables == InitVariables /\ [][NextVariables]_vars

(***************************************************************************)
(* Properties of the variable migration.                                    *)
(***************************************************************************)
\* C1: with dryRun = true, migrateVariables issues no createRepoVariable and
\* no createOrgVariable call.
C1_DryRunIssuesNoCreate ==
  dryRun => \A it \in VarItems : createCalls[it] = 0


(***************************************************************************)
(* The command line (src/cli.js).  JavaScript values are [t, s]: the type   *)
(* tag and a printable payload.                                             *)
(***************************************************************************)
Bool(b) == [t |-> "boolean", s |-> IF b THEN "true" ELSE "false"]
Str(x) == [t |-> "string", s |-> x]
Obj(n) == [t |-> "object", s |-> n]
Undefined == [t |-> "undefined", s |-> ""]

\* ToBoolean: what `if (x)` and `!x` test.
Truthy(v) ==
  CASE v.t = "boolean" -> v.s = "true"
    [] v.t = "string" -> v.s # ""
    [] v.t = "object" -> TRUE
    [] OTHER -> FALSE

\* a || b
OrElse(a, b) == IF Truthy(a) THEN a ELSE b

NotExited == -1

Components == {"variables", "teams", "secrets", "packages", "lfs"}

\* The parameter lists of the functions in the migrationFunctions map.
Parameters(component) ==
  CASE component = "variables" ->
         <<"sourceOctokit", "targetOctokit", "sourceOrg", "targetOrg", "dryRun", "verbose">>
    [] component = "teams" ->
         <<"sourceOctokit", "targetOctokit", "sourceGraphQL", "targetGraphQL", "sourceOrg",
           "targetOrg", "packageType", "dryRun", "verbose", "usernameMappingFile">>
    [] component = "secrets" ->
         <<"sourceOctokit", "targetOctokit", "sourceOrgToUse", "targetOrgToUse", "dryRun",
           "verbose">>
    [] component = "packages" ->
         <<"sourceOctokit", "targetOctokit", "sourceGraphQL", "targetGraphQL", "sourceOrg",
           "targetOrg", "packageType", "dryRun", "verbose">>
    [] component = "lfs" ->
         <<"sourceOctokit", "targetOctokit", "sourceOrg", "targetOrg", "dryRun", "verbose">>

\* The organizations and credentials runMigration settles on.
sourceOrgToUse == OrElse(env.SOURCE_ORG, argv.sourceOrg)
targetOrgToUse == OrElse(env.TARGET_ORG, argv.targetOrg)
sourceToken == env.SOURCE_TOKEN
targetToken == env.TARGET_TOKEN

ConfigurationMissing ==
  \/ ~Truthy(sourceOrgToUse)
  \/ ~Truthy(targetOrgToUse)
  \/ ~Truthy(sourceToken)
  \/ ~Truthy(targetToken)

\* The argument list of the migrationFunction(...) call in runMigration.
PassedArguments ==
  <<Obj("sourceOctokit"), Obj("targetOctokit"), Obj("sourceGraphQL"), Obj("targetGraphQL"),
    sourceOrgToUse, targetOrgToUse, argv.packageType, argv.dryRun, argv.verbose>>

\* A call binds parameters to arguments by position; a parameter without an
\* argument is undefined.
Bind(params, args) ==
  [n \in Range(params) |->
     LET i == CHOOSE k \in 1..Len(params) : params[k] = n
     IN IF i <= Len(args) THEN args[i] ELSE Undefined]

OptionalString(x) == {Undefined, Str(x)}

InitCli ==
  /\ pc = "handler"
  /\ dryRun = FALSE
  /\ calls = <<>>
  /\ \E component \in Components, dry \in BOOLEAN, verbose \in BOOLEAN,
        so \in OptionalString("cli-source"), to \in OptionalString("cli-target") :
       argv = [component |-> component, dryRun |-> Bool(dry), verbose |-> Bool(verbose),
               sourceOrg |-> so, targetOrg |-> to, packageType |-> Undefined]
  /\ \E so \in OptionalString("env-source"), to \in OptionalString("env-target"),
        st \in OptionalString("source-token"), tt \in OptionalString("target-token") :
       env = [SOURCE_ORG |-> so, TARGET_ORG |-> to, SOURCE_TOKEN |-> st, TARGET_TOKEN |-> tt]
  /\ clients = <<>>
  /\ received = <<>>
  /\ exitCode = NotExited
  /\ TeamsIdle
  /\ VariablesIdle
  /\ SecretsIdle
  /\ PackagesIdle
  /\ ListingsIdle

\* runMigration up to the creation of the clients: a missing value throws, the
\* handler's catch logs and calls process.exit(1).
ValidateConfiguration ==
  /\ pc = "handler"
  /\ IF ConfigurationMissing
     THEN /\ pc' = "exited"
          /\ exitCode' = 1
          /\ UNCHANGED clients
     ELSE /\ pc' = "clients"
          /\ clients' = [sourceOctokit |-> sourceToken, targetOctokit |-> targetToken,
                         sourceGraphQL |-> sourceToken, targetGraphQL |-> targetToken]
          /\ UNCHANGED exitCode
  /\ UNCHANGED <<dryRun, argv, env, received>>
  /\ UNCHANGED nonCliVars

\* await migrationFunction(...): the function of the component is entered with
\* the nine positional arguments; dryRun becomes the value its own dryRun
\* parameter tests.
Dispatch ==
  /\ pc = "clients"
  /\ received' = Bind(Parameters(argv.component), PassedArguments)
  /\ dryRun' = Truthy(received'.dryRun)
  /\ pc' = "migrating"
  /\ UNCHANGED <<argv, env, clients, exitCode>>
  /\ UNCHANGED nonCliVars

\* The migration function returns (its own try/catch absorbs item failures)
\* or throws; the handler exits with 0 or with process.exit(1).
MigrationSettles ==
  /\ pc = "migrating"
  /\ \E threw \in BOOLEAN : exitCode' = IF threw THEN 1 ELSE 0
  /\ pc' = "exited"
  /\ UNCHANGED <<dryRun, argv, env, clients, received>>
  /\ UNCHANGED nonCliVars

NextCli ==
  \/ ValidateConfiguration
  \/ Dispatch
  \/ MigrationSettles

SpecCli == InitCli /\ [][NextCli]_vars

(***************************************************************************)
(* Properties of the command line.                                          *)
(***************************************************************************)
\* C4: for every component, the dispatched migration function runs in dry-run
\* mode exactly when --dry-run is true.
C4_DryRunFlagReachesMigration ==
  pc = "migrating" => (dryRun <=> Truthy(argv.dryRun))


(***************************************************************************)
(* Secret migration (src/migrations/secrets.js).  Text is a sequence of     *)
(* code points, binary data a sequence of bytes.                            *)
(***************************************************************************)

\* Buffer.from(value, 'utf8'): the UTF-8 bytes of one code point.
utf8Bytes(cp) ==
  IF cp < 128 THEN <<cp>>
  ELSE IF cp < 2048 THEN <<192 + (cp \div 64), 128 + (cp % 64)>>
  ELSE IF cp < 65536
    THEN <<224 + (cp \div 4096), 128 + ((cp \div 64) % 64), 128 + (cp % 64)>>
  ELSE <<240 + (cp \div 262144), 128 + ((cp \div 4096) % 64),
         128 + ((cp \div 64) % 64), 128 + (cp % 64)>>

RECURSIVE utf8Encode(_)
utf8Encode(text) ==
  IF text = <<>> THEN <<>>
  ELSE utf8Bytes(Head(text)) \o utf8Encode(Tail(text))

\* buffer.toString('utf8') of well-formed UTF-8.
RECURSIVE utf8Decode(_)
utf8Decode(bytes) ==
  IF bytes = <<>> THEN <<>>
  ELSE LET b == bytes[1]
           n == IF b < 128 THEN 1 ELSE IF b < 224 THEN 2 ELSE IF b < 240 THEN 3 ELSE 4
           cp == IF n = 1 THEN b
                 ELSE IF n = 2 THEN (b - 192) * 64 + (bytes[2] - 128)
                 ELSE IF n = 3
                   THEN (b - 224) * 4096 + (bytes[2] - 128) * 64 + (bytes[3] - 128)
                 ELSE (b - 240) * 262144 + (bytes[2] - 128) * 4096
                      + (bytes[3] - 128) * 64 + (bytes[4] - 128)
       IN <<cp>> \o utf8Decode(SubSeq(bytes, n + 1, Len(bytes)))

\* The base64 alphabet A-Z a-z 0-9 + / as code points, and the padding '='.
Base64Char(i) ==
  IF i < 26 THEN 65 + i
  ELSE IF i < 52 THEN 71 + i
  ELSE IF i < 62 THEN i - 4
  ELSE IF i = 62 THEN 43 ELSE 47

Base64Pad == 61

\* The decoder's lookup: the sextet of an alphabet character.  The decoder
\* reads the URL-safe '-' and '_' as '+' and '/'.
IsBase64Char(c) ==
  \/ (c >= 65 /\ c <= 90)
  \/ (c >= 97 /\ c <= 122)
  \/ (c >= 48 /\ c <= 57)
  \/ c = 43
  \/ c = 47
  \/ c = 45
  \/ c = 95

Base64Index(c) ==
  IF c >= 65 /\ c <= 90 THEN c - 65
  ELSE IF c >= 97 /\ c <= 122 THEN c - 71
  ELSE IF c >= 48 /\ c <= 57 THEN c + 4
  ELSE IF c = 43 \/ c = 45 THEN 62 ELSE 63

\* buffer.toString('base64')
RECURSIVE Base64Encode(_)
Base64Encode(b) ==
  IF Len(b) = 0 THEN <<>>
  ELSE IF Len(b) = 1
    THEN <<Base64Char(b[1] \div 4), Base64Char((b[1] % 4) * 16), Base64Pad, Base64Pad>>
  ELSE IF Len(b) = 2
    THEN <<Base64Char(b[1] \div 4), Base64Char((b[1] % 4) * 16 + (b[2] \div 16)),
           Base64Char((b[2] % 16) * 4), Base64Pad>>
  ELSE <<Base64Char(b[1] \div 4), Base64Char((b[1] % 4) * 16 + (b[2] \div 16)),
         Base64Char((b[2] % 16) * 4 + (b[3] \div 64)), Base64Char(b[3] % 64)>>
       \o Base64Encode(SubSeq(b, 4, Len(b)))

RECURSIVE Base64DecodeSextets(_)
Base64DecodeSextets(x) ==
  IF Len(x) < 2 THEN <<>>
  ELSE IF Len(x) = 2 THEN <<x[1] * 4 + (x[2] \div 16)>>
  ELSE IF Len(x) = 3
    THEN <<x[1] * 4 + (x[2] \div 16), (x[2] % 16) * 16 + (x[3] \div 4)>>
  ELSE <<x[1] * 4 + (x[2] \div 16), (x[2] % 16) * 16 + (x[3] \div 4),
         (x[3] % 4) * 64 + x[4]>>
       \o Base64DecodeSextets(SubSeq(x, 5, Len(x)))

\* The UTF-16 code units of a text: a character above U+FFFF is a pair of
\* surrogates.
RECURSIVE utf16Units(_)
utf16Units(text) ==
  IF text = <<>> THEN <<>>
  ELSE (IF Head(text) < 65536 THEN <<Head(text)>>
        ELSE <<55296 + ((Head(text) - 65536) \div 1024),
               56320 + ((Head(text) - 65536) % 1024)>>)
       \o utf16Units(Tail(text))

\* The decoder reads a string one code unit at a time and keeps the low
\* byte of each: U+0141 is read as 'A', U+013D as '='.
LowByte(unit) == unit % 256

LowBytes(text) ==
  LET units == utf16Units(text)
  IN [i \in 1..Len(units) |-> LowByte(units[i])]

RECURSIVE BeforePadding(_)
BeforePadding(bytes) ==
  IF bytes = <<>> \/ Head(bytes) = Base64Pad THEN <<>>
  ELSE <<Head(bytes)>> \o BeforePadding(Tail(bytes))

\* What the decoder reads of a text: the low bytes of its code units up to
\* the first one that is the padding character.
UpToPadding(text) == BeforePadding(LowBytes(text))

\* Buffer.from(text, 'base64'): decoding ends at the first padding
\* character; before it, characters outside the alphabet carry no data.
Base64Decode(text) ==
  LET unpadded == SelectSeq(UpToPadding(text), LAMBDA c : IsBase64Char(c))
  IN Base64DecodeSextets([i \in 1..Len(unpadded) |-> Base64Index(unpadded[i])])

(***************************************************************************)
(* libsodium's sealed box, reduced to a one-byte Diffie-Hellman group: the  *)
(* sender draws an ephemeral key pair, derives the secret it shares with    *)
(* the recipient's public key, and sends the ephemeral public key, an       *)
(* authenticator and the masked message.  Only the holder of the private    *)
(* key that matches the public key recovers the shared secret.              *)
(***************************************************************************)
BoxPrime == 251
BoxGenerator == 6

RECURSIVE ModExp(_, _, _)
ModExp(b, x, m) == IF x = 0 THEN 1 ELSE (b * ModExp(b, x - 1, m)) % m

PublicKeyOf(privateKey) == ModExp(BoxGenerator, privateKey, BoxPrime)

RECURSIVE SumBytes(_)
SumBytes(b) == IF b = <<>> THEN 0 ELSE Head(b) + SumBytes(Tail(b))

BoxAuthenticator(message, shared) == (31 * SumBytes(message) + 7 * shared + Len(message)) % 256

crypto_box_seal(messageBytes, keyBytes, ephemeral) ==
  LET shared == ModExp(keyBytes[1], ephemeral, BoxPrime)
  IN <<PublicKeyOf(ephemeral), BoxAuthenticator(messageBytes, shared)>>
     \o [i \in 1..Len(messageBytes) |-> (messageBytes[i] + shared + i) % 256]

\* What the destination does with a received ciphertext.
crypto_box_seal_open(cipherBytes, privateKey) ==
  IF Len(cipherBytes) < 2 THEN [ok |-> FALSE, message |-> <<>>]
  ELSE LET shared == ModExp(cipherBytes[1], privateKey, BoxPrime)
           message == [i \in 1..(Len(cipherBytes) - 2) |->
                         (cipherBytes[i + 2] + 512 - shared - i) % 256]
       IN IF BoxAuthenticator(message, shared) = cipherBytes[2]
          THEN [ok |-> TRUE, message |-> message]
          ELSE [ok |-> FALSE, message |-> <<>>]

plaintextAsCiphertext(value, publicKey, ephemeral) == value

encryptSecret(value, publicKey, ephemeral) ==
  LET messageBytes == utf8Encode(value)
      keyBytes == Base64Decode(publicKey)
      encryptedBytes == crypto_box_seal(messageBytes, keyBytes, ephemeral)
  IN Base64Encode(encryptedBytes)


\* The secret types of a CSV row; "environment" stands for any type the
\* migration has no branch for.
SecretTypes == {"repo", "org", "environment"}

\* Plaintext values: empty, one ASCII character, and a mix of two-, three- and
\* four-byte characters.
SecretValues == {<<>>, <<65>>, <<233, 8364, 128512>>}

SecretRepo == "r1"

Visibilities == {"all", "private", "selected"}

\* The ephemeral private keys crypto_box_seal may draw.
Ephemerals == {2, 7}

\* The destination's key pairs: one for the organization, one per repository.
OrgPrivateKey == 3
RepoPrivateKey == 5
OrgKeyId == "org-key"
RepoKeyId == "repo-key"


\* The scopes that have a key pair: the organization ("") and the repository.
KeyScopes == {"", SecretRepo}

\* Keys may rotate: the destination replaces a scope's key pair by the next
\* generation, which has its own key id.
KeyGenerations == {1, 2}

Rotated(keyId) == keyId \o "-rotated"

KeyIdOf(scope, generation) ==
  LET first == IF scope = "" THEN OrgKeyId ELSE RepoKeyId
  IN IF generation = 1 THEN first ELSE Rotated(first)

PrivateKeyFor(keyId) ==
  IF keyId = OrgKeyId THEN OrgPrivateKey
  ELSE IF keyId = RepoKeyId THEN RepoPrivateKey
  ELSE IF keyId = Rotated(OrgKeyId) THEN OrgPrivateKey + RepoPrivateKey
  ELSE OrgPrivateKey * RepoPrivateKey

NoKey == [key |-> <<>>, key_id |-> ""]

PublicKeyResponse(keyId) ==
  [key |-> Base64Encode(<<PublicKeyOf(PrivateKeyFor(keyId))>>), key_id |-> keyId]

SecretRow(i, type, value) ==
  [type |-> type, repo |-> IF type = "repo" THEN SecretRepo ELSE "",
   name |-> "SECRET_" \o ToString(i), value |-> value]

\* The CSVs of n rows; a row of a type that is never sent has no value.
SecretRows(n) ==
  {rows \in {[i \in 1..n |-> SecretRow(i, types[i], values[i])] :
               types \in [1..n -> SecretTypes], values \in [1..n -> SecretValues]} :
     \A i \in 1..n : rows[i].type \notin {"repo", "org"} => rows[i].value = <<>>}

\* The secret names of a CSV.
CsvNames(rows) == {rows[i].name : i \in 1..Len(rows)}

\* What the source organization holds, as the dry run lists it.
SourceOrgSecrets == <<"ORG_SECRET">>
SourceRepoSecrets == <<[repo |-> SecretRepo, name |-> "REPO_SECRET"]>>

NoCiphertext == <<>>

DestinationCall(op, repo, name, encryptedValue, keyId, visibility) ==
  [op |-> op, repo |-> repo, secret_name |-> name, encrypted_value |-> encryptedValue,
   key_id |-> keyId, visibility |-> visibility]

getOrgPublicKey == DestinationCall("getOrgPublicKey", "", "", NoCiphertext, "", "")
getRepoPublicKey(repo) == DestinationCall("getRepoPublicKey", repo, "", NoCiphertext, "", "")
createOrUpdateRepoSecret(repo, name, encryptedValue, keyId) ==
  DestinationCall("createOrUpdateRepoSecret", repo, name, encryptedValue, keyId, "")
createOrUpdateOrgSecretForAll(name, encryptedValue, keyId, visibility) ==
  DestinationCall("createOrUpdateOrgSecret", "", name, encryptedValue, keyId, "all")

createOrUpdateOrgSecret(name, encryptedValue, keyId, visibility) ==
  DestinationCall("createOrUpdateOrgSecret", "", name, encryptedValue, keyId, visibility)

InitSecrets ==
  /\ pc = "start"
  /\ dryRun \in BOOLEAN
  /\ calls = <<>>
  /\ \E readable \in BOOLEAN :
       \E rows \in IF readable THEN UNION {SecretRows(n) : n \in 0..MaxSecrets} ELSE {<<>>} :
         secretsCsv = [readable |-> readable, rows |-> rows]
  /\ orgPublicKey = <<>>
  /\ secretTask = <<>>
  /\ checkResults = NoReport
  /\ destinationKey = [scope \in KeyScopes |-> 1]
  /\ lastFetched = [scope \in KeyScopes |-> NoKey]
  /\ sourceVisibility = [name \in CsvNames(secretsCsv.rows) |-> "all"]
  /\ PackagesIdle
  /\ CliIdle
  /\ ListingsIdle
  /\ TeamsIdle
  /\ VariablesIdle

\* migrateSecrets up to its first await: the dry run starts listing the
\* source; the live run reads the CSV (a read failure ends the run in the
\* catch) and awaits sodium.ready.
StartSecrets ==
  /\ pc = "start"
  /\ pc' = IF dryRun THEN "performDryRun"
           ELSE IF ~secretsCsv.readable THEN "done"
           ELSE "sodiumReady"
  /\ UNCHANGED <<dryRun, calls, secretVars>>
  /\ UNCHANGED nonSecretVars

\* await sodium.ready settles: a rejection ends the run in the catch with
\* no request sent; otherwise the destination is asked for the organization
\* public key.
SodiumReady ==
  /\ pc = "sodiumReady"
  /\ \E ready \in BOOLEAN :
       IF ready
       THEN /\ pc' = "getOrgPublicKey"
            /\ calls' = Append(calls, getOrgPublicKey)
       ELSE /\ pc' = "done"
            /\ UNCHANGED calls
  /\ UNCHANGED <<dryRun, secretVars>>
  /\ UNCHANGED nonSecretVars

\* performDryRun: a failed listing of the organization's secrets or of one
\* repository's secrets is logged and contributes no row; a failed listing of
\* the repositories lands in performDryRun's catch and no file is written.
PerformDryRun ==
  /\ pc = "performDryRun"
  /\ \E orgListed \in BOOLEAN, reposListed \in BOOLEAN, repoSecretsListed \in BOOLEAN :
       checkResults' =
         IF ~reposListed THEN checkResults
         ELSE
         [emitted |-> TRUE,
          value |-> <<<<"Type", "Repository/Organization", "Secret Name">>>>
            \o (IF orgListed
                THEN [i \in 1..Len(SourceOrgSecrets) |->
                        <<"Organization", "source-org", SourceOrgSecrets[i]>>]
                ELSE <<>>)
            \o (IF repoSecretsListed
                THEN [i \in 1..Len(SourceRepoSecrets) |->
                        <<"Repository", SourceRepoSecrets[i].repo, SourceRepoSecrets[i].name>>]
                ELSE <<>>)]
  /\ pc' = "done"
  /\ UNCHANGED <<dryRun, calls, secretsCsv, orgPublicKey, secretTask, destinationKey,
                 lastFetched, sourceVisibility>>
  /\ UNCHANGED nonSecretVars

\* const publicKey = type === 'repo' ? await getRepoPublicKey(...) : orgPublicKey
publicKeyFor(type, repoPublicKey, organizationKey) ==
  IF type = "repo" THEN repoPublicKey ELSE organizationKey

\* processSecret up to its first await, for row i holding the organization
\* key (publicKey: the key the row's own getRepoPublicKey returned; logged:
\* the catch of processSecret has logged an error for the row): a repo row
\* asks for the repository key; an org row encrypts under the organization
\* key and asks the source for the existing secret; any other row encrypts
\* and sends nothing.
SpawnSecretTask(row, key, ephemeral) ==
  IF row.type = "repo"
    THEN [pc |-> "getRepoPublicKey", encryptedValue |-> NoCiphertext, publicKey |-> NoKey,
          logged |-> FALSE]
  ELSE IF row.type = "org"
    THEN [pc |-> "getExistingOrgSecret",
          encryptedValue |-> encryptSecret(row.value, publicKeyFor(row.type, NoKey, key).key,
                                           ephemeral),
          publicKey |-> NoKey, logged |-> FALSE]
  ELSE [pc |-> "done", encryptedValue |-> NoCiphertext, publicKey |-> NoKey,
        logged |-> FALSE]

RECURSIVE RepoKeyCalls(_)
RepoKeyCalls(rows) ==
  IF rows = <<>> THEN <<>>
  ELSE (IF Head(rows).type = "repo" THEN <<getRepoPublicKey(Head(rows).repo)>> ELSE <<>>)
       \o RepoKeyCalls(Tail(rows))

\* getOrgPublicKey returns: a failure ends the run in the catch; otherwise
\* Promise.all starts processSecret for every row, each running to its first
\* await.
OrgPublicKeyReturns ==
  /\ pc = "getOrgPublicKey"
  /\ \E ok \in BOOLEAN :
       IF ~ok
       THEN /\ pc' = "done"
            /\ UNCHANGED <<calls, orgPublicKey, secretTask, lastFetched>>
       ELSE LET rows == secretsCsv.rows
                key == PublicKeyResponse(KeyIdOf("", destinationKey[""]))
            IN /\ orgPublicKey' = key
               /\ lastFetched' = [lastFetched EXCEPT ![""] = key]
               /\ \E ephemeral \in [1..Len(rows) -> Ephemerals] :
                    /\ \A i \in 1..Len(rows) :
                         rows[i].type # "org" => \A e \in Ephemerals : ephemeral[i] <= e
                    /\ secretTask' = [i \in 1..Len(rows) |->
                                        SpawnSecretTask(rows[i], key, ephemeral[i])]
               /\ calls' = calls \o RepoKeyCalls(rows)
               /\ pc' = "processSecret"
  /\ UNCHANGED <<dryRun, secretsCsv, checkResults, destinationKey, sourceVisibility>>
  /\ UNCHANGED nonSecretVars

\* The answer of actions.getRepoPublicKey for row i is read inside
\* getRepoPublicKey: a rejection is logged by processSecret's catch;
\* otherwise the key is returned to processSecret, which goes on in a later
\* microtask, so the answers of other rows can be read in between.
RepoPublicKeyReturns(i) ==
  /\ pc = "processSecret"
  /\ secretTask[i].pc = "getRepoPublicKey"
  /\ \E ok \in BOOLEAN :
       IF ~ok
       THEN /\ secretTask' = [secretTask EXCEPT ![i].pc = "done", ![i].logged = TRUE]
            /\ UNCHANGED lastFetched
       ELSE LET row == secretsCsv.rows[i]
                repoPublicKey == PublicKeyResponse(KeyIdOf(row.repo, destinationKey[row.repo]))
            IN /\ lastFetched' = [lastFetched EXCEPT ![row.repo] = repoPublicKey]
               /\ secretTask' = [secretTask EXCEPT ![i].pc = "encryptSecret",
                                                   ![i].publicKey = repoPublicKey]
  /\ UNCHANGED <<pc, dryRun, calls, secretsCsv, orgPublicKey, checkResults, destinationKey,
                 sourceVisibility>>
  /\ UNCHANGED nonSecretVars

\* processSecret of a repo row goes on with the key it was returned: the
\* value is encrypted under it and createOrUpdateRepoSecret is sent.
SendRepoSecret(i) ==
  /\ pc = "processSecret"
  /\ secretTask[i].pc = "encryptSecret"
  /\ \E ephemeral \in Ephemerals :
       LET row == secretsCsv.rows[i]
           publicKey == publicKeyFor(row.type, secretTask[i].publicKey, orgPublicKey)
           encryptedValue == encryptSecret(row.value, publicKey.key, ephemeral)
       IN /\ secretTask' = [secretTask EXCEPT ![i].pc = "createOrUpdateSecret",
                                              ![i].encryptedValue = encryptedValue]
          /\ calls' = Append(calls,
                         createOrUpdateRepoSecret(row.repo, row.name, encryptedValue,
                                                  publicKey.key_id))
  /\ UNCHANGED <<pc, dryRun, secretsCsv, orgPublicKey, checkResults, destinationKey,
                 lastFetched, sourceVisibility>>
  /\ UNCHANGED nonSecretVars

\* getOrgSecret returns from the source for row i: a failure is logged by
\* processSecret's catch; otherwise createOrUpdateOrgSecret is sent with the
\* ciphertext and the visibility the source reported.
ExistingOrgSecretReturns(i) ==
  /\ pc = "processSecret"
  /\ secretTask[i].pc = "getExistingOrgSecret"
  /\ \E ok \in BOOLEAN :
       IF ~ok
       THEN /\ secretTask' = [secretTask EXCEPT ![i].pc = "done", ![i].logged = TRUE]
            /\ UNCHANGED calls
       ELSE LET row == secretsCsv.rows[i]
                visibility == sourceVisibility[row.name]
            IN /\ secretTask' = [secretTask EXCEPT ![i].pc = "createOrUpdateSecret"]
               /\ calls' = Append(calls,
                              createOrUpdateOrgSecret(row.name, secretTask[i].encryptedValue,
                                                      publicKeyFor(row.type, NoKey,
                                                                   orgPublicKey).key_id,
                                                      visibility))
  /\ UNCHANGED <<pc, dryRun, secretsCsv, orgPublicKey, checkResults, destinationKey,
                 lastFetched, sourceVisibility>>
  /\ UNCHANGED nonSecretVars

\* The destination answers the create-or-update call of row i: a rejection
\* is logged by processSecret's catch; either way processSecret settles.
CreateSecretReturns(i) ==
  /\ pc = "processSecret"
  /\ secretTask[i].pc = "createOrUpdateSecret"
  /\ \E ok \in BOOLEAN :
       secretTask' = [secretTask EXCEPT ![i].pc = "done", ![i].logged = ~ok]
  /\ UNCHANGED <<pc, dryRun, calls, secretsCsv, orgPublicKey, checkResults, destinationKey,
                 lastFetched, sourceVisibility>>
  /\ UNCHANGED nonSecretVars

\* Promise.all resolves once every processSecret has settled.
SecretsProcessed ==
  /\ pc = "processSecret"
  /\ \A i \in 1..Len(secretTask) : secretTask[i].pc = "done"
  /\ pc' = "done"
  /\ UNCHANGED <<dryRun, calls, secretVars>>
  /\ UNCHANGED nonSecretVars

NextSecrets ==
  \/ StartSecrets
  \/ SodiumReady
  \/ PerformDryRun
  \/ OrgPublicKeyReturns
  \/ \E i \in 1..Len(secretTask) : RepoPublicKeyReturns(i)
  \/ \E i \in 1..Len(secretTask) : SendRepoSecret(i)
  \/ \E i \in 1..Len(secretTask) : ExistingOrgSecretReturns(i)
  \/ \E i \in 1..Len(secretTask) : CreateSecretReturns(i)
  \/ SecretsProcessed

SpecSecrets == InitSecrets /\ [][NextSecrets]_vars

(***************************************************************************)
(* Properties of the secret migration.                                      *)
(***************************************************************************)
SecretCreateOps == {"createOrUpdateRepoSecret", "createOrUpdateOrgSecret"}

CsvValue(name) ==
  LET i == CHOOSE k \in 1..Len(secretsCsv.rows) : secretsCsv.rows[k].name = name
  IN secretsCsv.rows[i].value

\* C5: every call the secret migration sends to the destination carries as
\* its only payload the base64 text encryptSecret produced, which is not the
\* plaintext and which the destination, holding the private key that matches
\* the key id of the call, opens to exactly the CSV value.  The calls on
\* record are never changed and every create-or-update call is recorded by
\* a step of its own, so each is examined when it is the latest call; the
\* other calls carry no payload.
C5_DestinationReceivesOnlyCiphertext ==
  /\ [][/\ Len(calls') >= Len(calls)
         /\ SubSeq(calls', 1, Len(calls)) = calls
         /\ \A c \in (Len(calls) + 1)..Len(calls') :
              calls'[c].op \in SecretCreateOps => Len(calls') = Len(calls) + 1]_vars
  /\ [](\A c \in 1..Len(calls) :
          calls[c].op \notin SecretCreateOps => calls[c].encrypted_value = NoCiphertext)
  /\ []((calls # <<>> /\ calls[Len(calls)].op \in SecretCreateOps) =>
          LET call == calls[Len(calls)]
              value == CsvValue(call.secret_name)
              sent == call.encrypted_value
              opened == crypto_box_seal_open(Base64Decode(sent), PrivateKeyFor(call.key_id))
          IN /\ sent # value
             /\ sent # Base64Encode(utf8Encode(value))
             /\ \E e \in Ephemerals :
                  sent = encryptSecret(value, PublicKeyResponse(call.key_id).key, e)
             /\ opened.ok
             /\ utf8Decode(opened.message) = value)

\* A repository secret and an organization secret with multi-byte plaintext
\* have both been sent.
C5_Witness ==
  /\ \E c \in 1..Len(calls) :
       /\ calls[c].op = "createOrUpdateRepoSecret"
       /\ CsvValue(calls[c].secret_name) = <<233, 8364, 128512>>
  /\ \E c \in 1..Len(calls) :
       /\ calls[c].op = "createOrUpdateOrgSecret"
       /\ CsvValue(calls[c].secret_name) = <<65>>

(***************************************************************************)
(* Package migration (src/migrations/packages.js), Maven packages.          *)
(***************************************************************************)
DefaultConcurrency == 5

\* The chunks downloadMavenFilesParallel and uploadMavenFilesParallel slice
\* n files into: the loop `for (i = 0; i < n; i += concurrency)`.
RECURSIVE ChunkStarts(_, _, _)
ChunkStarts(i, n, c) == IF i < n THEN <<i>> \o ChunkStarts(i + c, n, c) ELSE <<>>

\* filesToDownload.slice(i, i + concurrency), files numbered from 1.
Slice(n, i, c) == {f \in 1..n : f > i /\ f <= i + c}

Chunks(n, c) == [k \in 1..Len(ChunkStarts(0, n, c)) |-> Slice(n, ChunkStarts(0, n, c)[k], c)]

SetToSeq(S) == CHOOSE q \in [1..Cardinality(S) -> S] :
                 \A i, j \in 1..Cardinality(S) : i < j => q[i] < q[j]

PackageCall(op, pkg, version, file, wave) ==
  [op |-> op, pkg |-> pkg, version |-> version, file |-> file, wave |-> wave]

\* The requests one chunk issues, in file order.
ChunkCalls(op, pkg, version, files, wave) ==
  LET q == SetToSeq(files)
  IN [i \in 1..Len(q) |-> PackageCall(op, pkg, version, q[i], wave)]

PackageName(i) == "package-" \o ToString(i)
PackageRepo(i) == "repo-" \o ToString(i)

\* The versions as the source lists them, newest first.
ListedVersions(n) == [i \in 1..n |-> n + 1 - i]

SourcePackage(i, versions, files) ==
  [name |-> PackageName(i), repository |-> PackageRepo(i), package_type |-> "maven",
   versions |-> ListedVersions(versions), files |-> files]

currentPackage == srcPackages[pkgIdx]

\* migratePackageVersions iterates versions.reverse().
currentVersion == Reverse(currentPackage.versions)[verIdx]

\* The file counts of a version in the runs that vary the packages, and the
\* version counts in the runs that vary the files of one package.
DriverFileCounts == {0, 1, 2}
MavenVersionCounts == {1, 2}

PackagesAtRest ==
  /\ pc = "fetchPackages"
  /\ calls = <<>>
  /\ pkgIdx = 0
  /\ verIdx = 0
  /\ chunk = 0
  /\ inFlight = {}
  /\ orphans = {}
  /\ staging = {}
  /\ uploaded = {}
  /\ downloadFailed = {}
  /\ uploadFailed = {}
  /\ CliIdle
  /\ ListingsIdle
  /\ SecretsIdle
  /\ TeamsIdle
  /\ VariablesIdle

\* Runs over several packages and versions, MAVEN_CONCURRENCY unset; versions
\* of more than one file are run for a single package (SpecMaven varies the
\* files).
InitPackages ==
  /\ dryRun \in BOOLEAN
  /\ \E n \in 0..MaxPackages, files \in DriverFileCounts :
       \E versions \in [1..n -> 0..MaxVersions] :
         /\ files > 1 => n = 1
         /\ srcPackages = [i \in 1..n |-> SourcePackage(i, versions[i], files)]
  /\ pkgTargetRepos \in SUBSET {PackageRepo(i) : i \in 1..Len(srcPackages)}
  /\ targetPackages \in SUBSET {PackageName(i) : i \in 1..Len(srcPackages)}
  /\ concurrency = DefaultConcurrency
  /\ PackagesAtRest

\* Live runs over one package the target has a repository for, varying the
\* files of its versions and MAVEN_CONCURRENCY.
InitMaven ==
  /\ dryRun = FALSE
  /\ \E versions \in MavenVersionCounts, files \in 1..MaxFiles :
       srcPackages = <<SourcePackage(1, versions, files)>>
  /\ pkgTargetRepos = {PackageRepo(1)}
  /\ targetPackages = {}
  /\ concurrency \in (1..MaxConcurrency) \cup {DefaultConcurrency}
  /\ PackagesAtRest

\* The loop of processPackages moves to package i, or the run ends.
EnterPackage(i) ==
  IF i <= Len(srcPackages)
  THEN /\ pkgIdx' = i
       /\ pc' = "checkTargetRepository"
  ELSE /\ pkgIdx' = pkgIdx
       /\ pc' = "done"

\* The loop of migratePackageVersions moves to version j of the current
\* package, or processPackage returns.
EnterVersion(j) ==
  IF j <= Len(currentPackage.versions)
  THEN /\ verIdx' = j
       /\ pkgIdx' = pkgIdx
       /\ pc' = "getPackageContent"
  ELSE /\ verIdx' = verIdx
       /\ EnterPackage(pkgIdx + 1)

\* The directory removed and made anew in the dry run too.
clearedWhateverTheFlag(dry, directory, kept, failed) == [directory |-> {}, threw |-> FALSE]

\* The run that starts on the directory as it finds it.
keptWhateverTheFlag(dry, directory, kept, failed) == [directory |-> directory, threw |-> FALSE]

\* if (!dryRun) preparePackagesDirectory(): the live run removes packages/
\* and makes it anew; the dry run leaves it as it is.  failed is a throw of
\* fs.rmSync or of fs.mkdirSync, and kept is what was under packages/ and
\* is still there then: anything from every file (nothing could be removed)
\* to none (the directory itself could not be removed, or not be made).
preparePackagesDirectory(dry, directory, kept, failed) ==
  IF dry THEN [directory |-> directory, threw |-> FALSE]
  ELSE IF failed THEN [directory |-> kept, threw |-> TRUE]
  ELSE [directory |-> {}, threw |-> FALSE]

\* migratePackages: the live run clears packages/, then the source packages
\* are listed; a throw of preparePackagesDirectory and a failed listing end
\* the run in the catch.
FetchPackages ==
  /\ pc = "fetchPackages"
  /\ \E failed \in BOOLEAN, kept \in SUBSET staging :
       LET prepared == preparePackagesDirectory(dryRun, staging, kept, failed)
       IN /\ dryRun => ~failed
          /\ ~failed => kept = {}
          /\ staging' = prepared.directory
          /\ IF prepared.threw
             THEN /\ pc' = "done"
                  /\ pkgIdx' = pkgIdx
             ELSE \E ok \in BOOLEAN :
                    IF ok THEN EnterPackage(1)
                    ELSE /\ pc' = "done"
                         /\ pkgIdx' = pkgIdx
  /\ UNCHANGED <<dryRun, calls, srcPackages, pkgTargetRepos, targetPackages, concurrency,
                 verIdx, chunk, inFlight, orphans, uploaded, downloadFailed, uploadFailed>>
  /\ UNCHANGED nonPackageVars

\* checkTargetRepository: repos.get; any rejection counts as "not found" and
\* the package is skipped.
CheckTargetRepository ==
  /\ pc = "checkTargetRepository"
  /\ calls' = Append(calls, PackageCall("repos.get", currentPackage.name, 0, 0, 0))
  /\ \E rejected \in BOOLEAN :
       /\ (currentPackage.repository \notin pkgTargetRepos) => rejected
       /\ IF rejected THEN EnterPackage(pkgIdx + 1)
          ELSE /\ pc' = "checkPackageExistsInTarget"
               /\ pkgIdx' = pkgIdx
  /\ UNCHANGED <<dryRun, srcPackages, pkgTargetRepos, targetPackages, concurrency, verIdx,
                 chunk, inFlight, orphans, staging, uploaded, downloadFailed, uploadFailed>>
  /\ UNCHANGED nonPackageVars

\* checkPackageExistsInTarget: getPackageForOrganization; any rejection, not
\* only "not found", counts as "does not exist" and the migration goes on.
CheckPackageExistsInTarget ==
  /\ pc = "checkPackageExistsInTarget"
  /\ calls' = Append(calls, PackageCall("getPackageForOrganization", currentPackage.name, 0, 0, 0))
  /\ \E rejected \in BOOLEAN :
       /\ (currentPackage.name \notin targetPackages) => rejected
       /\ IF rejected THEN /\ pc' = "fetchPackageVersions"
                           /\ pkgIdx' = pkgIdx
          ELSE EnterPackage(pkgIdx + 1)
  /\ UNCHANGED <<dryRun, srcPackages, pkgTargetRepos, targetPackages, concurrency, verIdx,
                 chunk, inFlight, orphans, staging, uploaded, downloadFailed, uploadFailed>>
  /\ UNCHANGED nonPackageVars

\* fetchPackageVersions: a failure is logged by processPackages; the dry run
\* logs what it would migrate; the live run enters migratePackageVersions.
FetchPackageVersions ==
  /\ pc = "fetchPackageVersions"
  /\ \E ok \in BOOLEAN :
       IF ok /\ ~dryRun THEN EnterVersion(1)
       ELSE /\ verIdx' = verIdx
            /\ EnterPackage(pkgIdx + 1)
  /\ UNCHANGED <<dryRun, calls, srcPackages, pkgTargetRepos, targetPackages, concurrency,
                 chunk, inFlight, orphans, staging, uploaded, downloadFailed, uploadFailed>>
  /\ UNCHANGED nonPackageVars


\* The transfer of one file of the current version.
Transfer(kind, f) ==
  [kind |-> kind, pkg |-> currentPackage.name, version |-> currentVersion, file |-> f]

\* The current version's Promise.all over chunk k starts: every file of the
\* chunk is requested.
StartChunk(op, k) ==
  LET files == Chunks(currentPackage.files, concurrency)[k]
  IN /\ chunk' = k
     /\ inFlight' = files
     /\ calls' = calls \o ChunkCalls(op, currentPackage.name, currentVersion, files, k)
     /\ pc' = op
     /\ pkgIdx' = pkgIdx
     /\ verIdx' = verIdx

\* A rejection caught outside the loop over the versions: the package's
\* remaining versions are left and the next package is taken.
ChunkEndsPackage(kind, f) ==
  /\ orphans' = orphans \cup {Transfer(kind, g) : g \in inFlight \ {f}}
  /\ inFlight' = {}
  /\ chunk' = 0
  /\ calls' = calls
  /\ verIdx' = verIdx
  /\ EnterPackage(pkgIdx + 1)

\* The Promise.all of the running chunk rejects: the function throws through
\* migratePackageVersion to the catch of migratePackageVersions, which logs
\* and takes the next version; the chunk's other transfers keep running.
ChunkRejects(kind, f) ==
  /\ orphans' = orphans \cup {Transfer(kind, g) : g \in inFlight \ {f}}
  /\ inFlight' = {}
  /\ chunk' = 0
  /\ calls' = calls
  /\ EnterVersion(verIdx + 1)

\* migratePackageVersion up to downloadMavenFilesParallel's first chunk: a
\* failure to resolve the version's content or assets is logged by the
\* caller; a version without files is skipped.
ResolveVersion ==
  /\ pc = "getPackageContent"
  /\ currentPackage.package_type \in {"maven", "gradle"}
  /\ \E ok \in BOOLEAN :
       IF ok /\ currentPackage.files > 0
       THEN StartChunk("download", 1)
       ELSE /\ (currentPackage.files = 0) => ok
            /\ EnterVersion(verIdx + 1)
            /\ UNCHANGED <<calls, chunk, inFlight>>
  /\ UNCHANGED <<dryRun, srcPackages, pkgTargetRepos, targetPackages, concurrency, orphans,
                 staging, uploaded, downloadFailed, uploadFailed>>
  /\ UNCHANGED nonPackageVars

\* One download of the running chunk settles.  A success writes the file;
\* when the chunk is complete the next chunk starts, or, after the last one,
\* uploadMavenFilesParallel starts its first chunk.  A failure is logged and
\* rethrown.
DownloadSettles(f) ==
  /\ pc = "download"
  /\ f \in inFlight
  /\ \E ok \in BOOLEAN :
       IF ok
       THEN /\ staging' = staging \cup {<<currentPackage.name, f>>}
            /\ UNCHANGED <<orphans, downloadFailed>>
            /\ IF inFlight # {f}
               THEN /\ inFlight' = inFlight \ {f}
                    /\ UNCHANGED <<pc, pkgIdx, verIdx, chunk, calls>>
               ELSE IF chunk < Len(Chunks(currentPackage.files, concurrency))
               THEN StartChunk("download", chunk + 1)
               ELSE StartChunk("upload", 1)
       ELSE /\ downloadFailed' = downloadFailed \cup {Transfer("download", f)}
            /\ ChunkRejects("download", f)
            /\ UNCHANGED staging
  /\ UNCHANGED <<dryRun, srcPackages, pkgTargetRepos, targetPackages, concurrency, uploaded,
                 uploadFailed>>
  /\ UNCHANGED nonPackageVars

\* One upload of the running chunk settles.  When the last chunk is complete
\* the version is migrated.  A failure is logged and rethrown.
UploadSettles(f) ==
  /\ pc = "upload"
  /\ f \in inFlight
  /\ \E ok \in BOOLEAN :
       IF ok
       THEN /\ uploaded' = uploaded \cup {Transfer("upload", f)}
            /\ UNCHANGED <<orphans, uploadFailed>>
            /\ IF inFlight # {f}
               THEN /\ inFlight' = inFlight \ {f}
                    /\ UNCHANGED <<pc, pkgIdx, verIdx, chunk, calls>>
               ELSE IF chunk < Len(Chunks(currentPackage.files, concurrency))
               THEN StartChunk("upload", chunk + 1)
               ELSE /\ inFlight' = {}
                    /\ chunk' = 0
                    /\ calls' = calls
                    /\ EnterVersion(verIdx + 1)
       ELSE /\ uploadFailed' = uploadFailed \cup {Transfer("upload", f)}
            /\ ChunkRejects("upload", f)
            /\ UNCHANGED uploaded
  /\ UNCHANGED <<dryRun, srcPackages, pkgTargetRepos, targetPackages, concurrency, staging,
                 downloadFailed>>
  /\ UNCHANGED nonPackageVars

\* A transfer left running by a rejected chunk settles on its own.
OrphanSettles(o) ==
  /\ o \in orphans
  /\ orphans' = orphans \ {o}
  /\ \E ok \in BOOLEAN :
       /\ staging' = IF ok /\ o.kind = "download"
                     THEN staging \cup {<<o.pkg, o.file>>} ELSE staging
       /\ uploaded' = IF ok /\ o.kind = "upload" THEN uploaded \cup {o} ELSE uploaded
       /\ downloadFailed' = IF ~ok /\ o.kind = "download"
                            THEN downloadFailed \cup {o} ELSE downloadFailed
       /\ uploadFailed' = IF ~ok /\ o.kind = "upload"
                          THEN uploadFailed \cup {o} ELSE uploadFailed
  /\ UNCHANGED <<pc, dryRun, calls, srcPackages, pkgTargetRepos, targetPackages, concurrency,
                 pkgIdx, verIdx, chunk, inFlight>>
  /\ UNCHANGED nonPackageVars

NextPackages ==
  \/ FetchPackages
  \/ CheckTargetRepository
  \/ CheckPackageExistsInTarget
  \/ FetchPackageVersions
  \/ ResolveVersion
  \/ \E f \in inFlight : DownloadSettles(f)
  \/ \E f \in inFlight : UploadSettles(f)
  \/ \E o \in orphans : OrphanSettles(o)

SpecPackages == InitPackages /\ [][NextPackages]_vars

SpecMaven == InitMaven /\ [][NextPackages]_vars


(***************************************************************************)
(* Properties of the package migration.                                     *)
(***************************************************************************)
TransferOps == {"download", "upload"}

Requested(op, pkg, version, file) ==
  \E i \in 1..Len(calls) :
    /\ calls[i].op = op
    /\ calls[i].pkg = pkg
    /\ calls[i].version = version
    /\ calls[i].file = file

FailedOf(failed, pkg, version) == {t \in failed : t.pkg = pkg /\ t.version = version}

\* C6: once the run and every transfer have ended, a Maven version with
\* exactly one failed download (and no failed upload) has every other file
\* downloaded and uploaded, and only the failed file left out of the upload.
C6_OtherFilesStillTransferred ==
  (pc = "done" /\ orphans = {}) =>
    \A p \in 1..Len(srcPackages) : \A v \in Range(srcPackages[p].versions) :
      LET name == srcPackages[p].name
          failed == FailedOf(downloadFailed, name, v)
      IN (Cardinality(failed) = 1 /\ FailedOf(uploadFailed, name, v) = {}) =>
           \A f \in 1..srcPackages[p].files :
             IF \E t \in failed : t.file = f
             THEN ~Requested("upload", name, v, f)
             ELSE /\ Requested("download", name, v, f)
                  /\ [kind |-> "upload", pkg |-> name, version |-> v, file |-> f] \in uploaded

\* ceil(n / c)
CeilDiv(n, c) == (n + c - 1) \div c

WaveOf(file) == ((file - 1) \div concurrency) + 1

WavesStarted(pkg, version) ==
  {calls[i].wave : i \in {j \in 1..Len(calls) :
     calls[j].op = "download" /\ calls[j].pkg = pkg /\ calls[j].version = version}}

\* The downloads of one downloadMavenFilesParallel call that have not settled.
DownloadsInFlight(pkg, version) ==
  {t.file : t \in {o \in orphans : o.kind = "download" /\ o.pkg = pkg /\ o.version = version}}
  \cup (IF pc = "download" /\ currentPackage.name = pkg /\ currentVersion = version
        THEN inFlight ELSE {})

\* C7: a downloadMavenFilesParallel call over N files never has more than C
\* downloads in flight, has only downloads of its latest wave in flight, and
\* by the end of the run has run exactly ceil(N / C) waves.
C7_WavesBoundedAndComplete ==
  \A p \in 1..Len(srcPackages) : \A v \in Range(srcPackages[p].versions) :
    LET name == srcPackages[p].name
        waves == WavesStarted(name, v)
    IN /\ Cardinality(DownloadsInFlight(name, v)) <= concurrency
       /\ \A f \in DownloadsInFlight(name, v) : \A w \in waves : w <= WaveOf(f)
       /\ (pc = "done" /\ waves # {}) =>
            Cardinality(waves) = CeilDiv(srcPackages[p].files, concurrency)

\* C8: no file is downloaded or uploaded for a package the target already
\* holds.
C8_PresentPackageNotTransferred ==
  \A i \in 1..Len(calls) :
    calls[i].op \in TransferOps => calls[i].pkg \notin targetPackages


(***************************************************************************)
(* The IdP-group variant of the team migration (src/migrations/secrets.js   *)
(* 281-636): migrateTeams(sourceOctokit, targetOctokit, sourceOrg,          *)
(* targetOrg, dryRun, verbose).  It has no username mapping and no source   *)
(* repository listing; it maps a team to the IdP group its environment      *)
(* variable <TEAM>_IDP_GROUP names, and replays on the new team the         *)
(* repositories the target lists for it.                                    *)
(***************************************************************************)
NoGroup == ""
IdpGroupNames == {"engineers", "admins"}

\* getTargetIdpGroupMappings: a dry run returns [] without asking the
\* target; a failed listing is caught and yields [].
getTargetIdpGroupMappings(dry, listOk, groups) ==
  IF dry THEN {} ELSE IF listOk THEN groups ELSE {}

\* getIdpGroupForTeam with findIdpGroupByName: the group the environment
\* variable names, when the fetched groups hold it; otherwise null.
getIdpGroupForTeam(idpGroupName, groups) ==
  IF idpGroupName # NoGroup /\ idpGroupName \in groups THEN idpGroupName ELSE NoGroup

\* applyIdpGroupMapping: the teams.updateSyncGroupMappings request.
applyIdpGroupMapping(slug, idpGroup, syncOk) ==
  [op |-> "updateSyncGroupMappings", team |-> slug, arg |-> idpGroup,
   value |-> "", ok |-> syncOk]

\* migrateTeamMembers of the variant: the source login is used as it is.
idpMigrateTeamMembers(slug, membersWithRoles, addFail) ==
  migrateTeamMembers(slug, membersWithRoles, <<>>, addFail)

\* migrateTeamRepositories of the variant: the repositories the target
\* lists for the new team, each granted again with its own permission.
idpMigrateTeamRepositories(slug, listed, listOk, grantFail) ==
  <<[op |-> "listReposInOrg", team |-> slug, arg |-> 0, value |-> "", ok |-> listOk]>>
  \o (IF listOk
      THEN [i \in 1..Len(listed) |->
              [op |-> "addOrUpdateRepoPermissionsInOrg", team |-> slug,
               arg |-> listed[i].name, value |-> repoPermission(listed[i]),
               ok |-> listed[i].name \notin grantFail]]
      ELSE <<>>)

\* IDP_GROUP_OVERRIDE after split(','): a sequence of values, each the text
\* on the two sides of its '='.  team is NoParent for a value with no '='
\* in it; <<>> is the variable unset or empty.  The settings tried are
\* every single value and every pair of values that names admins first
\* and engineers second, for the same team, two teams or a team and none.
OverrideValues == [team : 0..MaxTeams, idpGroup : IdpGroupNames]
IdpGroupOverrides ==
  {<<>>} \cup {<<v>> : v \in OverrideValues}
         \cup {<<v, w>> \in OverrideValues \X OverrideValues :
                  v.idpGroup = "admins" /\ w.idpGroup = "engineers"}

\* One value of the override as it was written.
overrideText(v) ==
  IF v.team = NoParent THEN v.idpGroup ELSE ToString(v.team) \o "=" \o v.idpGroup

\* The teamIdpGroups object displayTeamHierarchy builds: one value is the
\* default of every team, whatever its text; several values are team=group
\* pairs, a later pair of a team replacing an earlier one and a value with
\* no '=' assigning undefined under its own text.
teamIdpGroups(override) ==
  IF Len(override) = 1
  THEN [default |-> overrideText(override[1]), byTeam |-> <<>>]
  ELSE LET named == {override[i].team : i \in 1..Len(override)} \ {NoParent}
           last(t) == CHOOSE i \in 1..Len(override) :
                        /\ override[i].team = t
                        /\ \A j \in 1..Len(override) : override[j].team = t => j <= i
       IN [default |-> NoGroup,
           byTeam |-> [t \in named |-> override[last(t)].idpGroup]]

\* teamIdpGroups[team.name] || teamIdpGroups.default
overriddenIdpGroup(groups, name) ==
  IF name \in DOMAIN groups.byTeam THEN groups.byTeam[name] ELSE groups.default

\* displayTeamHierarchy of the variant: a team's group is its override,
\* else the default override, else the group mapped to it.
RECURSIVE idpDisplayTeamHierarchy(_, _, _, _)
idpDisplayTeamHierarchy(teams, tmap, override, parentSlug) ==
  LET sel == SelectSeq(teams, LAMBDA t : t.parent = parentSlug)
      Node(t) ==
        IF t.slug \notin DOMAIN tmap THEN [threw |-> TRUE, value |-> <<>>]
        ELSE LET kids == idpDisplayTeamHierarchy(teams, tmap, override, t.slug)
                 info == tmap[t.slug]
                 base == [name |-> t.slug,
                          idpGroup |->
                            LET given == overriddenIdpGroup(teamIdpGroups(override), t.slug)
                            IN IF given # NoGroup THEN given ELSE info.idpGroup,
                          members |-> [i \in 1..Len(info.members) |->
                                         [login |-> info.members[i].login,
                                          role |-> info.members[i].role]]]
             IN IF kids.threw THEN [threw |-> TRUE, value |-> <<>>]
                ELSE [threw |-> FALSE,
                      value |-> IF Len(kids.value) > 0
                                THEN base @@ [children |-> kids.value]
                                ELSE base]
      nodes == [i \in 1..Len(sel) |-> Node(sel[i])]
  IN IF \E i \in 1..Len(sel) : nodes[i].threw
     THEN [threw |-> TRUE, value |-> <<>>]
     ELSE [threw |-> FALSE, value |-> [i \in 1..Len(sel) |-> nodes[i].value]]

\* The first await of migrateTeams: getTargetIdpGroupMappings.
GetTargetIdpGroupMappings ==
  /\ pc = "idp-start"
  /\ \E listOk \in BOOLEAN, groups \in SUBSET IdpGroupNames :
       /\ (dryRun \/ ~listOk) => groups = {}
       /\ dryRun => listOk
       /\ targetIdpGroups' = getTargetIdpGroupMappings(dryRun, listOk, groups)
       /\ calls' = IF dryRun THEN calls
                   ELSE Append(calls, [op |-> "listIdpGroupsForOrg", team |-> 0, arg |-> 0,
                                       value |-> "", ok |-> listOk])
  /\ pc' = "idp-fetch"
  /\ UNCHANGED <<dryRun, sourceTeams, srcMembers, srcTeamRepos, usernameMappings,
                 targetRepos, sortedTeams, teamIdx, teamMap, teamHierarchy>>
  /\ UNCHANGED nonTeamVars

\* fetchSourceTeams followed by sortTeamsByHierarchy.
IdpFetchSourceTeams ==
  /\ pc = "idp-fetch"
  /\ \E listOk \in BOOLEAN :
       IF listOk
       THEN /\ sortedTeams' = sortTeamsByHierarchy(sourceTeams)
            /\ teamIdx' = 1
            /\ pc' = "idp-teams"
       ELSE /\ pc' = "done"
            /\ UNCHANGED <<sortedTeams, teamIdx>>
  /\ UNCHANGED <<dryRun, calls, sourceTeams, srcMembers, srcTeamRepos, usernameMappings,
                 targetRepos, teamMap, teamHierarchy, targetIdpGroups>>
  /\ UNCHANGED nonTeamVars

\* createTeamInTargetOrg of the variant: every way its requests can be
\* answered, as the requests it issues and whether teamMap.set is reached.
\* A throw of teams.create or of updateSyncGroupMappings lands in its catch
\* before teamMap.set; the later requests have their own catch.
idpCreateTeamInTargetOrg(team, tmap, idpGroup, membersWithRoles) ==
  LET create(ok) == <<createCall(team, tmap, ok)>>
      sync(ok) == IF idpGroup = NoGroup THEN <<>>
                  ELSE <<applyIdpGroupMapping(team.slug, idpGroup, ok)>>
      logins == {membersWithRoles[i].login : i \in 1..Len(membersWithRoles)}
      replay(addFail, listed, listOk, grantFail) ==
        create(TRUE) \o sync(TRUE)
        \o idpMigrateTeamMembers(team.slug, membersWithRoles, addFail)
        \o idpMigrateTeamRepositories(team.slug, listed, listOk, grantFail)
  IN {[issued |-> create(FALSE), stored |-> FALSE]}
     \cup (IF idpGroup = NoGroup THEN {}
           ELSE {[issued |-> create(TRUE) \o sync(FALSE), stored |-> FALSE]})
     \cup {[issued |-> replay(addFail, <<>>, FALSE, {}), stored |-> TRUE] :
             addFail \in SUBSET logins}
     \cup UNION {UNION {{[issued |-> replay(addFail, listed, TRUE, grantFail), stored |-> TRUE] :
                           grantFail \in SUBSET {listed[i].name : i \in 1..Len(listed)}} :
                        listed \in RepoListings} :
                 addFail \in SUBSET logins}

\* processTeam of the variant for the team at teamIdx.
IdpProcessTeam ==
  /\ pc = "idp-teams"
  /\ teamIdx <= Len(sortedTeams)
  /\ LET team == sortedTeams[teamIdx]
         members == srcMembers[team.slug]
     IN \E membersOk \in BOOLEAN :
          IF ~membersOk
          THEN \* listMembersInOrg threw: processTeam logs and returns
               UNCHANGED <<calls, teamMap>>
          ELSE \E roleOf \in [Range(members) -> Roles], roleFail \in SUBSET Range(members),
                  idpGroupName \in IdpGroupNames \cup {NoGroup} :
                 LET membersWithRoles == fetchTeamMembers(members, roleOf, roleFail)
                     idpGroup == getIdpGroupForTeam(idpGroupName, targetIdpGroups)
                     recorded == [id |-> team.slug, slug |-> team.slug,
                                  members |-> membersWithRoles, idpGroup |-> idpGroup]
                     created == [id |-> NewTeamId(calls), slug |-> team.slug,
                                 members |-> membersWithRoles, idpGroup |-> idpGroup]
                     \* a dry run does not enter createTeamInTargetOrg
                     outcomes == IF dryRun
                                 THEN {[issued |-> <<createCall(team, teamMap, FALSE)>>,
                                        stored |-> FALSE]}
                                 ELSE idpCreateTeamInTargetOrg(team, teamMap, idpGroup,
                                                               membersWithRoles)
                 IN \E out \in outcomes :
                      /\ calls' = calls \o processTeamCalls(dryRun, out.issued)
                      /\ teamMap' = IF dryRun THEN (team.slug :> recorded) @@ teamMap
                                    ELSE IF out.stored THEN (team.slug :> created) @@ teamMap
                                    ELSE teamMap
  /\ teamIdx' = teamIdx + 1
  /\ UNCHANGED <<pc, dryRun, sourceTeams, srcMembers, srcTeamRepos, usernameMappings,
                 targetRepos, sortedTeams, teamHierarchy, targetIdpGroups>>
  /\ UNCHANGED nonTeamVars

\* After the loop: displayTeamHierarchy and the two logger.info lines.
IdpDisplayTeamHierarchy ==
  /\ pc = "idp-teams"
  /\ teamIdx > Len(sortedTeams)
  /\ \E override \in IdpGroupOverrides :
       LET h == idpDisplayTeamHierarchy(sortedTeams, teamMap, override, NoParent)
       IN teamHierarchy' = IF h.threw THEN NoReport
                           ELSE [emitted |-> TRUE, value |-> h.value]
  /\ pc' = "done"
  /\ UNCHANGED <<dryRun, calls, sourceTeams, srcMembers, srcTeamRepos, usernameMappings,
                 targetRepos, sortedTeams, teamIdx, teamMap, targetIdpGroups>>
  /\ UNCHANGED nonTeamVars

NextIdpTeams ==
  \/ GetTargetIdpGroupMappings
  \/ IdpFetchSourceTeams
  \/ IdpProcessTeam
  \/ IdpDisplayTeamHierarchy

\* Either variant.  A dry run is given any forest of fewer than MaxTeams
\* teams in any listing order, a live run at most one team; the first team
\* has members, and it holds every repository, which the target has too.
InitTeamVariants ==
  /\ pc \in {"start", "idp-start"}
  /\ dryRun \in BOOLEAN
  /\ calls = <<>>
  /\ sourceTeams \in {l \in TeamListings : Len(l) < MaxTeams /\ (dryRun \/ Len(l) <= 1)}
  /\ \E m \in InjectiveSeqs(Logins, MaxMembers) :
       srcMembers = [t \in TeamSlugs |-> IF t = 1 THEN m ELSE <<>>]
  /\ srcTeamRepos = [t \in TeamSlugs |->
                       IF t = 1
                       THEN [i \in 1..MaxRepos |-> [name |-> i, admin |-> FALSE, push |-> TRUE]]
                       ELSE <<>>]
  /\ usernameMappings = <<>>
  /\ targetRepos = RepoNames
  /\ sortedTeams = <<>>
  /\ teamIdx = 0
  /\ teamMap = <<>>
  /\ teamHierarchy = NoReport
  /\ targetIdpGroups = {}
  /\ VariablesIdle
  /\ CliIdle
  /\ ListingsIdle
  /\ SecretsIdle
  /\ PackagesIdle

NextTeamVariants ==
  \/ NextTeams
  \/ NextIdpTeams

SpecTeamVariants == InitTeamVariants /\ [][NextTeamVariants]_vars

TargetWriteOps ==
  {"teams.create", "addOrUpdateMembershipForUserInOrg",
   "addOrUpdateRepoPermissionsInOrg", "updateSyncGroupMappings"}

\* C11: in a dry run neither variant of the team migration issues a
\* teams.create, addOrUpdateMembershipForUserInOrg,
\* addOrUpdateRepoPermissionsInOrg or updateSyncGroupMappings request to
\* the target, whatever the source team listing.
C11_DryRunTeamsIssueNoWrite ==
  dryRun => \A i \in 1..Len(calls) : calls[i].op \notin TargetWriteOps

\* A dry run of either variant that went through a team with members and
\* recorded it, and reached its end.
C11_Witness ==
  /\ dryRun
  /\ pc = "done"
  /\ \E t \in DOMAIN teamMap : Len(teamMap[t].members) > 0
  /\ Len(sortedTeams) > 1
  /\ teamHierarchy.emitted


(***************************************************************************)
(* The npm and container branches of migratePackageVersion, and runs over   *)
(* packages of every type.                                                  *)
(***************************************************************************)
PackageTypes == {"maven", "npm", "container"}

TypedPackage(i, type, versions, files) ==
  [SourcePackage(i, versions, files) EXCEPT !.package_type = type]

\* Paths under packages/<name>/ that are not an asset's own file: the
\* .npmrc of npm publish, and the tarball <name>-<version>.tgz an npm
\* download writes for its version.
Npmrc == 0 - 1
NpmTarball(version) == 0 - (version + 1)

\* A file left under packages/ by an earlier run.
StaleFile == <<PackageName(0), 1>>

\* listNPMPackageAssets: the version's dist tarball, or nothing.
NpmAssets(files) == IF files > 0 THEN 1 ELSE 0

\* packages/<name>/package, the directory tar -xzf unpacks the tarball to.
NpmPackageDir == 0

\* The npm branch for the current version, start to end: the tarball is
\* downloaded (a response that is not ok writes nothing and is only
\* logged; a network failure throws), then publishNpmPackage writes .npmrc,
\* unpacks the tarball, runs npm publish in package/ and removes package/,
\* which a throw of npm publish or of fs.rmSync leaves in place.  tar -xzf
\* throws when the tarball was not written or is no tarball ("none":
\* nothing is unpacked) and when the tarball breaks off or the disk fills
\* up on the way ("part": package/ holds what was unpacked until then);
\* either way npm publish is not run.  A throw is logged by
\* migratePackageVersions, which takes the next version.
MigrateNpmVersion ==
  /\ pc = "getPackageContent"
  /\ currentPackage.package_type = "npm"
  /\ LET name == currentPackage.name
         download == PackageCall("download", name, currentVersion, 1, 0)
         publish == PackageCall("npm publish", name, currentVersion, 0, 0)
         tarball == <<name, NpmTarball(currentVersion)>>
         unpackedTo == <<name, NpmPackageDir>>
     IN \E resolved \in BOOLEAN, fetched \in {"ok", "not ok", "threw"},
           unpacked \in {"all", "part", "none"}, published \in BOOLEAN,
           removed \in BOOLEAN :
          IF ~resolved \/ NpmAssets(currentPackage.files) = 0
          THEN /\ (NpmAssets(currentPackage.files) = 0) => resolved
               /\ fetched = "ok" /\ unpacked = "all" /\ published /\ removed
               /\ UNCHANGED <<calls, staging, uploaded, downloadFailed, uploadFailed>>
          ELSE IF fetched = "threw"
          THEN /\ unpacked = "all" /\ published /\ removed
               /\ calls' = Append(calls, download)
               /\ downloadFailed' = downloadFailed \cup {Transfer("download", 1)}
               /\ UNCHANGED <<staging, uploaded, uploadFailed>>
          ELSE LET written == staging \cup {<<name, Npmrc>>}
                                      \cup (IF fetched = "ok" THEN {tarball} ELSE {})
               IN /\ tarball \notin written => unpacked = "none"
                  /\ unpacked # "all" => ~published
                  /\ ~published => removed
                  /\ calls' = IF unpacked = "all" THEN calls \o <<download, publish>>
                              ELSE Append(calls, download)
                  /\ staging' = IF unpacked = "none" THEN written
                                ELSE IF unpacked = "part" THEN written \cup {unpackedTo}
                                ELSE IF published /\ removed THEN written \ {unpackedTo}
                                ELSE written \cup {unpackedTo}
                  /\ uploaded' = IF published
                                 THEN uploaded \cup {Transfer("npm publish", 0)} ELSE uploaded
                  /\ uploadFailed' = IF published THEN uploadFailed
                                     ELSE uploadFailed \cup {Transfer("npm publish", 0)}
                  /\ UNCHANGED downloadFailed
  /\ EnterVersion(verIdx + 1)
  /\ UNCHANGED <<dryRun, srcPackages, pkgTargetRepos, targetPackages, concurrency,
                 chunk, inFlight, orphans>>
  /\ UNCHANGED nonPackageVars

\* The container branch for the current version, start to end: docker login
\* at the source, docker pull and docker save of each tag in turn, docker
\* login at the target, then docker tag and docker push of each tag in
\* turn.  The first command that fails throws: sourceLogin and targetLogin
\* are the two logins, pulled counts the tags saved, pushed the tags pushed
\* and tagged is docker tag of the tag after those.
MigrateContainerVersion ==
  /\ pc = "getPackageContent"
  /\ currentPackage.package_type = "container"
  /\ LET name == currentPackage.name
         n == currentPackage.files
         call(op, f) == PackageCall(op, name, currentVersion, f, 0)
         pulls(k) == [i \in 1..k |-> call("download", i)]
         pushes(k) == [i \in 1..(2 * k) |->
                         call(IF i % 2 = 1 THEN "docker tag" ELSE "docker push", (i + 1) \div 2)]
     IN \E resolved \in BOOLEAN, sourceLogin \in BOOLEAN, pulled \in 0..n,
           targetLogin \in BOOLEAN, pushed \in 0..n, tagged \in BOOLEAN :
          IF ~resolved \/ n = 0
          THEN /\ (n = 0) => resolved
               /\ sourceLogin /\ pulled = 0 /\ targetLogin /\ pushed = 0 /\ tagged
               /\ UNCHANGED <<calls, staging, uploaded, downloadFailed, uploadFailed>>
          ELSE LET allPulled == sourceLogin /\ pulled = n
                   pushing == allPulled /\ targetLogin
               IN /\ ~sourceLogin => pulled = 0
                  /\ ~allPulled => targetLogin
                  /\ ~pushing => pushed = 0
                  /\ (~pushing \/ pushed = n) => tagged
                  /\ calls' = calls
                       \o (IF ~sourceLogin THEN <<>>
                           ELSE pulls(IF pulled < n THEN pulled + 1 ELSE n))
                       \o (IF ~pushing THEN <<>>
                           ELSE pushes(pushed)
                                \o (IF pushed = n THEN <<>>
                                    ELSE IF tagged
                                    THEN <<call("docker tag", pushed + 1),
                                           call("docker push", pushed + 1)>>
                                    ELSE <<call("docker tag", pushed + 1)>>))
                  /\ staging' = staging \cup {<<name, f>> : f \in 1..pulled}
                  /\ uploaded' = uploaded \cup {Transfer("docker push", f) : f \in 1..pushed}
                  /\ downloadFailed' = IF ~allPulled
                                       THEN downloadFailed \cup {Transfer("download", pulled + 1)}
                                       ELSE downloadFailed
                  /\ uploadFailed' = IF allPulled /\ (~targetLogin \/ pushed < n)
                                     THEN uploadFailed \cup {Transfer("docker push", pushed + 1)}
                                     ELSE uploadFailed
  /\ EnterVersion(verIdx + 1)
  /\ UNCHANGED <<dryRun, srcPackages, pkgTargetRepos, targetPackages, concurrency,
                 chunk, inFlight, orphans>>
  /\ UNCHANGED nonPackageVars

\* Packages of every type, with or without a file left under packages/.  A
\* dry run is given up to MaxPackages packages, a live run at most one; the
\* packages have the same number of versions and of files, and the target
\* has a repository for each.
InitPackageTypes ==
  /\ dryRun \in BOOLEAN
  /\ \E n \in 0..MaxPackages, versions \in 0..MaxVersions, files \in DriverFileCounts :
       \E types \in [1..n -> PackageTypes] :
         /\ dryRun \/ n <= 1
         /\ srcPackages = [i \in 1..n |-> TypedPackage(i, types[i], versions, files)]
  /\ pkgTargetRepos = {PackageRepo(i) : i \in 1..Len(srcPackages)}
  /\ targetPackages \in {{}, {PackageName(i) : i \in 1..Len(srcPackages)}}
  /\ concurrency = DefaultConcurrency
  /\ pc = "fetchPackages"
  /\ calls = <<>>
  /\ pkgIdx = 0
  /\ verIdx = 0
  /\ chunk = 0
  /\ inFlight = {}
  /\ orphans = {}
  /\ staging \in {{}, {StaleFile}}
  /\ uploaded = {}
  /\ downloadFailed = {}
  /\ uploadFailed = {}
  /\ CliIdle
  /\ ListingsIdle
  /\ SecretsIdle
  /\ TeamsIdle
  /\ VariablesIdle

NextPackageTypes ==
  \/ NextPackages
  \/ MigrateNpmVersion
  \/ MigrateContainerVersion

SpecPackageTypes == InitPackageTypes /\ [][NextPackageTypes]_vars

\* The read-only requests processPackage sends to the target.
TargetProbeOps == {"repos.get", "getPackageForOrganization"}

\* C12: in a dry run of the package migration no step changes the packages
\* staging directory, and the only requests on record are the repository
\* and package existence probes: no download, no upload, no npm publish, no
\* docker tag or push.
C12_DryRunPackagesOnlyProbe ==
  /\ [](dryRun => \A i \in 1..Len(calls) : calls[i].op \in TargetProbeOps)
  /\ [][dryRun => staging' = staging]_vars

\* A dry run that ended after probing for a package the target lacks, with
\* the file of an earlier run still under packages/.
C12_Witness ==
  /\ dryRun
  /\ pc = "done"
  /\ staging = {StaleFile}
  /\ \E p \in 1..Len(srcPackages) :
       /\ Len(srcPackages[p].versions) > 0
       /\ srcPackages[p].name \notin targetPackages
       /\ \E i \in 1..Len(calls) :
            calls[i].op = "getPackageForOrganization" /\ calls[i].pkg = srcPackages[p].name


(***************************************************************************)
(* Key rotation at the destination while secrets are migrated.              *)
(***************************************************************************)
\* The destination replaces the key pair of one scope by its next
\* generation, at any moment of the live run.
RotateKey(scope) ==
  /\ pc \in {"getOrgPublicKey", "processSecret"}
  /\ destinationKey[scope] + 1 \in KeyGenerations
  /\ destinationKey' = [destinationKey EXCEPT ![scope] = destinationKey[scope] + 1]
  /\ UNCHANGED <<pc, dryRun, calls, secretsCsv, orgPublicKey, secretTask, checkResults,
                 lastFetched, sourceVisibility>>
  /\ UNCHANGED nonSecretVars

\* A readable CSV of repository and organization secrets that share one
\* plaintext value.
InitSecretKeys ==
  /\ pc = "start"
  /\ dryRun \in BOOLEAN
  /\ calls = <<>>
  /\ \E n \in 0..MaxSecrets, value \in SecretValues :
       \E types \in [1..n -> {"repo", "org"}] :
         secretsCsv = [readable |-> TRUE,
                       rows |-> [i \in 1..n |-> SecretRow(i, types[i], value)]]
  /\ orgPublicKey = <<>>
  /\ secretTask = <<>>
  /\ checkResults = NoReport
  /\ destinationKey = [scope \in KeyScopes |-> 1]
  /\ lastFetched = [scope \in KeyScopes |-> NoKey]
  /\ sourceVisibility = [name \in CsvNames(secretsCsv.rows) |-> "all"]
  /\ PackagesIdle
  /\ CliIdle
  /\ ListingsIdle
  /\ TeamsIdle
  /\ VariablesIdle

NextSecretKeys ==
  \/ NextSecrets
  \/ \E scope \in KeyScopes : RotateKey(scope)

SpecSecretKeys == InitSecretKeys /\ [][NextSecretKeys]_vars

\* C13: every create-or-update call names a key of the call's own scope
\* (the secret's repository, or the organization) and carries the value
\* encrypted under exactly the key it names; and at the moment a call is
\* sent, the key it names is the one the run fetched last for that scope.
\* Keys rotate at any point between the steps of the concurrent secrets.
C13_KeyOfOwnScopeLastFetched ==
  /\ [](\A c \in 1..Len(calls) :
          calls[c].op \in SecretCreateOps =>
            /\ (calls[c].op = "createOrUpdateOrgSecret") <=> (calls[c].repo = "")
            /\ \E g \in KeyGenerations : calls[c].key_id = KeyIdOf(calls[c].repo, g)
            /\ \E e \in Ephemerals :
                 calls[c].encrypted_value =
                   encryptSecret(CsvValue(calls[c].secret_name),
                                 PublicKeyResponse(calls[c].key_id).key, e))
  /\ [][\A c \in (Len(calls) + 1)..Len(calls') :
          calls'[c].op \in SecretCreateOps =>
            /\ calls'[c].key_id = lastFetched'[calls'[c].repo].key_id
            /\ \E e \in Ephemerals :
                 calls'[c].encrypted_value =
                   encryptSecret(CsvValue(calls'[c].secret_name),
                                 lastFetched'[calls'[c].repo].key, e)]_vars

(***************************************************************************)
(* Organization secrets whose source visibility varies.                     *)
(***************************************************************************)
\* A readable CSV of organization secrets, with at most one repository
\* secret among them, that share one plaintext value of one or more bytes;
\* the source organization holds a secret of every name, each with any
\* visibility.
InitSecretVisibility ==
  /\ pc = "start"
  /\ dryRun \in BOOLEAN
  /\ calls = <<>>
  /\ \E n \in 0..MaxSecrets, value \in SecretValues \ {<<>>} :
       \E types \in [1..n -> {"repo", "org"}] :
         /\ Cardinality({i \in 1..n : types[i] = "repo"}) <= 1
         /\ secretsCsv = [readable |-> TRUE,
                          rows |-> [i \in 1..n |-> SecretRow(i, types[i], value)]]
  /\ orgPublicKey = <<>>
  /\ secretTask = <<>>
  /\ checkResults = NoReport
  /\ destinationKey = [scope \in KeyScopes |-> 1]
  /\ lastFetched = [scope \in KeyScopes |-> NoKey]
  /\ sourceVisibility \in [CsvNames(secretsCsv.rows) -> Visibilities]
  /\ PackagesIdle
  /\ CliIdle
  /\ ListingsIdle
  /\ TeamsIdle
  /\ VariablesIdle

SpecSecretVisibility == InitSecretVisibility /\ [][NextSecrets]_vars

\* C14: every createOrUpdateOrgSecret call carries the visibility the
\* source organization's secret of the same name has, and the CSV value of
\* that name encrypted under the destination organization's public key,
\* whose id it names.
C14_OrgSecretKeepsVisibility ==
  \A c \in 1..Len(calls) :
    calls[c].op = "createOrUpdateOrgSecret" =>
      LET name == calls[c].secret_name
          organizationKey == PublicKeyResponse(KeyIdOf("", destinationKey[""]))
      IN /\ \E i \in 1..Len(secretsCsv.rows) :
              secretsCsv.rows[i].name = name /\ secretsCsv.rows[i].type = "org"
         /\ calls[c].visibility = sourceVisibility[name]
         /\ calls[c].key_id = organizationKey.key_id
         /\ \E e \in Ephemerals :
              calls[c].encrypted_value = encryptSecret(CsvValue(name), organizationKey.key, e)

\* Two organization secrets were sent, one of them with the visibility
\* "selected", the other with a different one.
C14_Witness ==
  \E c, d \in 1..Len(calls) :
    /\ calls[c].op = "createOrUpdateOrgSecret"
    /\ calls[d].op = "createOrUpdateOrgSecret"
    /\ calls[c].visibility = "selected"
    /\ calls[d].visibility # "selected"


(***************************************************************************)
(* The organization eng / eng-frontend / eng-backend.                       *)
(***************************************************************************)
\* The source has exactly three teams: eng without a parent and two others,
\* eng-frontend and eng-backend, whose parent is eng.
IsEngOrganization(eng) ==
  /\ Len(sourceTeams) = 3
  /\ SourceParent(eng) = NoParent
  /\ \A t \in Range(sourceTeams) : t.slug # eng => t.parent = eng

SourceSlugs == {sourceTeams[i].slug : i \in 1..Len(sourceTeams)}

Created(t) == \E i \in CreateCalls : calls[i].team = t /\ calls[i].ok

EngRunCompleted(eng) ==
  /\ ~dryRun
  /\ pc = "done"
  /\ IsEngOrganization(eng)
  /\ \A t \in Range(sourceTeams) : Created(t.slug)

\* C15: for the organization eng, eng-frontend (parent eng), eng-backend
\* (parent eng), listed in any order, a live run in which the three teams
\* are created sends eng's create call first, sends both children's create
\* calls with parent_team_id equal to eng's destination id, and ends with a
\* hierarchy report of one root, eng, that nests exactly the two children.
C15_EngFirstChildrenNested ==
  \A eng \in SourceSlugs :
    EngRunCompleted(eng) =>
      LET report == teamHierarchy.value
      IN /\ \A i \in CreateCalls : calls[i].team # eng =>
              /\ \E j \in CreateCalls : j < i /\ calls[j].team = eng
              /\ calls[i].arg # NoParent
              /\ calls[i].arg = teamMap[eng].id
         /\ teamHierarchy.emitted
         /\ Len(report) = 1
         /\ report[1].name = eng
         /\ "children" \in DOMAIN report[1]
         /\ Len(report[1].children) = 2
         /\ {report[1].children[k].name : k \in 1..2} = SourceSlugs \ {eng}
         /\ \A k \in 1..2 : "children" \notin DOMAIN report[1].children[k]

\* The live run of that organization ended with the three teams created,
\* from a listing that names the two children before eng.
C15_Witness ==
  \E eng \in SourceSlugs :
    /\ EngRunCompleted(eng)
    /\ sourceTeams[3].slug = eng


(***************************************************************************)
(* The command line with GitHub App authentication                          *)
(* (src/unnamed/part_000).  The target clients authenticate as an app       *)
(* installation; the source clients use SOURCE_TOKEN when it is set.  A     *)
(* request made while the connections are tested is recorded in calls with  *)
(* the side runMigration tests and the credential of the client that sends  *)
(* it.                                                                      *)
(***************************************************************************)
AppComponents == {"variables", "teams", "packages", "lfs"}

\* The credential of a client built with createAppAuth from TARGET_APP_ID,
\* the private key and TARGET_INSTALLATION_ID.
InstallationCredential == Obj("app-installation")

\* requiredVars and missingVars of runMigration.
AppConfigurationMissing ==
  \/ ~Truthy(sourceOrgToUse)
  \/ ~Truthy(targetOrgToUse)
  \/ ~Truthy(env.TARGET_APP_ID)
  \/ ~Truthy(env.TARGET_INSTALLATION_ID)
  \/ ~Truthy(env.TARGET_PRIVATE_KEY_PATH)

\* sourceToken ? await createSourceOctokitInstance(sourceToken) : targetOctokit,
\* and the same choice for sourceGraphQL.
sourceCredential(token, targetCredential) ==
  IF Truthy(token) THEN token ELSE targetCredential

\* The request testConnection sends: users.getAuthenticated for the source
\* side when SOURCE_TOKEN is set, orgs.get of the side's organization
\* otherwise.
testConnection(credential, type, org, ok) ==
  IF type = "source" /\ Truthy(env.SOURCE_TOKEN)
  THEN [op |-> "users.getAuthenticated", side |-> type, org |-> Undefined,
        auth |-> credential, ok |-> ok]
  ELSE [op |-> "orgs.get", side |-> type, org |-> org, auth |-> credential, ok |-> ok]

InitAppCli ==
  /\ pc = "app-handler"
  /\ dryRun = FALSE
  /\ calls = <<>>
  /\ \E component \in AppComponents, dry \in BOOLEAN,
        so \in OptionalString("cli-source"), to \in OptionalString("cli-target") :
       argv = [component |-> component, dryRun |-> Bool(dry), verbose |-> Bool(FALSE),
               sourceOrg |-> so, targetOrg |-> to, packageType |-> Undefined]
  /\ \E so \in OptionalString("env-source"), to \in OptionalString("env-target"),
        st \in OptionalString("source-token"), tt \in OptionalString("target-token"),
        id \in OptionalString("app-id"), inst \in OptionalString("installation-id"),
        key \in OptionalString("private-key.pem") :
       env = [SOURCE_ORG |-> so, TARGET_ORG |-> to, SOURCE_TOKEN |-> st, TARGET_TOKEN |-> tt,
              TARGET_APP_ID |-> id, TARGET_INSTALLATION_ID |-> inst,
              TARGET_PRIVATE_KEY_PATH |-> key]
  /\ clients = <<>>
  /\ received = <<>>
  /\ exitCode = NotExited
  /\ TeamsIdle
  /\ VariablesIdle
  /\ SecretsIdle
  /\ PackagesIdle
  /\ ListingsIdle

\* runMigration up to the configuration log: a missing required variable
\* throws, the handler's catch logs and calls process.exit(1).
AppValidateConfiguration ==
  /\ pc = "app-handler"
  /\ IF AppConfigurationMissing
     THEN /\ pc' = "exited"
          /\ exitCode' = 1
     ELSE /\ pc' = "app-clients"
          /\ UNCHANGED exitCode
  /\ UNCHANGED <<dryRun, calls, argv, env, clients, received>>
  /\ UNCHANGED <<secretVars, packageVars, teamVars, variableVars, listingVars>>

\* The four client creations.  Reading the private key or obtaining the
\* installation token can fail; the error reaches the handler's catch.
AppCreateClients ==
  /\ pc = "app-clients"
  /\ \E created \in BOOLEAN :
       IF created
       THEN /\ clients' =
                 [sourceOctokit |-> sourceCredential(sourceToken, InstallationCredential),
                  targetOctokit |-> InstallationCredential,
                  sourceGraphQL |-> sourceCredential(sourceToken, InstallationCredential),
                  targetGraphQL |-> InstallationCredential]
            /\ pc' = "app-test"
            /\ UNCHANGED exitCode
       ELSE /\ pc' = "exited"
            /\ exitCode' = 1
            /\ UNCHANGED clients
  /\ UNCHANGED <<dryRun, calls, argv, env, received>>
  /\ UNCHANGED <<secretVars, packageVars, teamVars, variableVars, listingVars>>

\* testConnection of the source client, then of the target client; the
\* first failure is rethrown and reaches the handler's catch.
AppTestConnections ==
  /\ pc = "app-test"
  /\ \E sourceOk \in BOOLEAN, targetOk \in BOOLEAN :
       LET source == testConnection(clients.sourceOctokit, "source", sourceOrgToUse, sourceOk)
           target == testConnection(clients.targetOctokit, "target", targetOrgToUse, targetOk)
       IN IF ~sourceOk
          THEN /\ ~targetOk
               /\ calls' = calls \o <<source>>
               /\ pc' = "exited"
               /\ exitCode' = 1
          ELSE /\ calls' = calls \o <<source, target>>
               /\ pc' = IF targetOk THEN "clients" ELSE "exited"
               /\ exitCode' = IF targetOk THEN exitCode ELSE 1
  /\ UNCHANGED <<dryRun, argv, env, clients, received>>
  /\ UNCHANGED <<secretVars, packageVars, teamVars, variableVars, listingVars>>

NextAppCli ==
  \/ AppValidateConfiguration
  \/ AppCreateClients
  \/ AppTestConnections

\* Both entry points: src/cli.js with two tokens and src/unnamed/part_000
\* with app authentication, each from every environment and command line.
InitEntryPoints == InitCli \/ InitAppCli

NextEntryPoints == NextCli \/ NextAppCli

SpecEntryPoints == InitEntryPoints /\ [][NextEntryPoints]_vars

(***************************************************************************)
(* Credentials of the two sides.                                            *)
(***************************************************************************)
\* The credentials the configuration holds for the target organization.
TargetCredentials == {env.TARGET_TOKEN, InstallationCredential}

SourceClients == {clients.sourceOctokit, clients.sourceGraphQL}

TargetClients == {clients.targetOctokit, clients.targetGraphQL}

\* C16: once the clients exist, both source clients hold the source token
\* and both target clients a target credential, no source client holds a
\* target credential, and every recorded request of the source side carries
\* the source token while every request of the target side carries a target
\* credential.
C16_CredentialsNeverInterchanged ==
  clients # <<>> =>
    /\ SourceClients = {env.SOURCE_TOKEN}
    /\ TargetClients \subseteq TargetCredentials
    /\ SourceClients \cap TargetCredentials = {}
    /\ \A i \in 1..Len(calls) :
         /\ calls[i].side = "source" => calls[i].auth = env.SOURCE_TOKEN
         /\ calls[i].side = "target" => calls[i].auth \in TargetCredentials


(***************************************************************************)
(* Source-side listings.  A listing endpoint serves its items in pages: a   *)
(* request without per_page gets a page of the default size (30 at the      *)
(* service), a request with per_page: 100 a page of that size.  The model   *)
(* scales both sizes down and keeps their order, DefaultPageSize <          *)
(* RequestedPageSize < MaxItems.                                            *)
(***************************************************************************)
MaxItems == 3
DefaultPageSize == 1
RequestedPageSize == 2

Endpoints == {"packages", "versions", "orgSecrets", "teams", "members", "repositories"}

NotListed == [state |-> "pending", items |-> <<>>]
Returned(items) == [state |-> "returned", items |-> items]
Threw == [state |-> "threw", items |-> <<>>]

\* The response to one request for a page.
Page(items, perPage, page) ==
  SubSeq(items, (page - 1) * perPage + 1,
         IF page * perPage < Len(items) THEN page * perPage ELSE Len(items))

\* Whether the response to that request links to a next page.
HasNextPage(items, perPage, page) == page * perPage < Len(items)

\* octokit.paginate(endpoint, {per_page: 100}): requests page after page
\* while the response links to a next one and concatenates the items.
RECURSIVE paginateFrom(_, _, _)
paginateFrom(items, perPage, page) ==
  Page(items, perPage, page)
  \o (IF HasNextPage(items, perPage, page)
      THEN paginateFrom(items, perPage, page + 1)
      ELSE <<>>)

paginate(items) == paginateFrom(items, RequestedPageSize, 1)

\* const { data } = await octokit.<endpoint>({...}) without per_page or
\* page: the response to the single request, the first page of the default
\* size.
singleRequest(items) == Page(items, DefaultPageSize, 1)

\* The listing functions do not depend on one another: the runs give every
\* endpoint the same number of items, from none to MaxItems.
ItemsAtSource == {[i \in 1..n |-> i] : n \in 0..MaxItems}

InitListings ==
  /\ pc = "listings"
  /\ dryRun = TRUE
  /\ calls = <<>>
  /\ \E items \in ItemsAtSource : atSource = [endpoint \in Endpoints |-> items]
  /\ yielded = [endpoint \in Endpoints |-> NotListed]
  /\ TeamsIdle
  /\ VariablesIdle
  /\ CliIdle
  /\ SecretsIdle
  /\ PackagesIdle

\* What a listing function hands to its caller: the items it collected, or
\* nothing when a request of it threw.
Yield(endpoint, items) ==
  /\ pc = "listings"
  /\ yielded[endpoint] = NotListed
  /\ \E ok \in BOOLEAN :
       yielded' = [yielded EXCEPT ![endpoint] = IF ok THEN Returned(items) ELSE Threw]
  /\ UNCHANGED <<runVars, atSource, cliVars, secretVars, packageVars, teamVars, variableVars>>

\* fetchPackages: one listPackagesForOrganization request.
FetchPackagesListing == Yield("packages", singleRequest(atSource["packages"]))

\* fetchPackageVersions: one getAllPackageVersionsForPackageOwnedByOrg
\* request.
FetchPackageVersionsListing == Yield("versions", singleRequest(atSource["versions"]))

\* checkOrganizationSecrets: one listOrgSecrets request.
CheckOrganizationSecretsListing ==
  Yield("orgSecrets", singleRequest(atSource["orgSecrets"]))

\* fetchSourceTeams: paginate(teams.list, per_page: 100).
FetchSourceTeamsListing == Yield("teams", paginate(atSource["teams"]))

\* The request for a listed member's role.
MembershipRequest(login, ok) ==
  [op |-> "getMembershipForUserInOrg", arg |-> login, ok |-> ok]

\* fetchTeamMembers: paginate(teams.listMembersInOrg, per_page: 100), then
\* one getMembershipForUserInOrg request per listed member; the function
\* returns login and role of the members whose request was answered
\* (roleFail: the members whose request failed) and throws when the listing
\* does.
FetchTeamMembersListing ==
  /\ pc = "listings"
  /\ yielded["members"] = NotListed
  /\ LET members == paginate(atSource["members"])
     IN \E ok \in BOOLEAN, roleFail \in SUBSET Range(members) :
          IF ok
          THEN /\ calls' = calls \o [i \in 1..Len(members) |->
                                       MembershipRequest(members[i],
                                                         members[i] \notin roleFail)]
               /\ yielded' =
                    [yielded EXCEPT !["members"] =
                       Returned(fetchTeamMembers(members,
                                                 [l \in Range(members) |-> RoleAtSource(l)],
                                                 roleFail))]
          ELSE /\ roleFail = {}
               /\ yielded' = [yielded EXCEPT !["members"] = Threw]
               /\ UNCHANGED calls
  /\ UNCHANGED <<pc, dryRun, atSource, cliVars, secretVars, packageVars, teamVars,
                 variableVars>>

\* checkRepositorySecrets, fetchTeamRepositories: paginate(repos.listForOrg /
\* teams.listReposInOrg, per_page: 100).
FetchRepositoriesListing == Yield("repositories", paginate(atSource["repositories"]))

NextListings ==
  \/ FetchPackagesListing
  \/ FetchPackageVersionsListing
  \/ CheckOrganizationSecretsListing
  \/ FetchSourceTeamsListing
  \/ FetchTeamMembersListing
  \/ FetchRepositoriesListing

SpecListings == InitListings /\ [][NextListings]_vars

\* The members whose role request the source refused.
RoleRefused ==
  {calls[i].arg : i \in {j \in DOMAIN calls : calls[j].op = "getMembershipForUserInOrg"
                                              /\ ~calls[j].ok}}

\* The items a listing handed to its caller, by what the source lists them
\* under: a team member by the login.
ItemsYielded(endpoint) ==
  LET items == yielded[endpoint].items
  IN IF endpoint = "members" THEN [i \in DOMAIN items |-> items[i].login] ELSE items

\* C17: every source-side listing that returned hands its caller all the
\* items the source holds for that endpoint, whatever the number of pages
\* they span; of the team members, all those whose role request was
\* answered.
C17_ListingsDrainAllPages ==
  \A endpoint \in Endpoints :
    yielded[endpoint].state = "returned" =>
      ItemsYielded(endpoint) = IF endpoint = "members"
                               THEN Without(atSource[endpoint], RoleRefused)
                               ELSE atSource[endpoint]


(***************************************************************************)
(* Item failures in team and package runs.                                  *)
(***************************************************************************)
\* Team runs from every listing, package runs of every type, dry and live,
\* and live runs of one package with several versions.
InitItemRuns == InitTeams \/ InitPackages \/ InitPackageTypes \/ InitMaven

NextItemRuns == NextTeams \/ NextPackageTypes

SpecItemRuns == InitItemRuns /\ [][NextItemRuns]_vars

\* A step taken while processTeam runs for a team, whatever its outcome,
\* hands the loop of migrateTeams to the next team.
TeamLoopAdvances ==
  (pc = "teams" /\ teamIdx <= Len(sortedTeams)) =>
    /\ pc' = "teams"
    /\ teamIdx' = teamIdx + 1
    /\ sortedTeams' = sortedTeams

InVersionLoop == pc \in {"getPackageContent", "download", "upload"}

LastVersion == verIdx = Len(currentPackage.versions)

\* A step of a package run moves the loops by one item at a time: to the
\* next version of the same package, or to the next package once the
\* versions the run entered are exhausted, and to the end of the run only
\* from the last package.
PackageLoopAdvances ==
  /\ pkgIdx' # pkgIdx =>
       /\ pkgIdx' = pkgIdx + 1
       /\ InVersionLoop => LastVersion
  /\ (InVersionLoop /\ verIdx' # verIdx) =>
       /\ verIdx' = verIdx + 1
       /\ pkgIdx' = pkgIdx
  /\ (pc \notin {"fetchPackages", "start", "done"} /\ pc' = "done") =>
       /\ pkgIdx = Len(srcPackages)
       /\ InVersionLoop => LastVersion

\* The requests a finished package run sent to look for each package's
\* repository.
RepositoryProbes == {calls[i].pkg : i \in {j \in 1..Len(calls) : calls[j].op = "repos.get"}}

\* C18: in team and package runs no step, failing or not, skips an item: the
\* step that processes a team passes to the next team, a package run
\* leaves a version only for the next version and a package only after its
\* last version; a team run that listed its teams ends after the last team
\* had its turn, and a package run that listed its packages ends with a
\* repository probe sent for every package.
C18_ItemFailureNeverStopsRun ==
  /\ [][TeamLoopAdvances /\ PackageLoopAdvances]_vars
  /\ []((pc = "done" /\ sortedTeams # <<>>) => teamIdx = Len(sortedTeams) + 1)
  /\ []((pc = "done" /\ pkgIdx > 0) =>
          \A i \in 1..Len(srcPackages) : srcPackages[i].name \in RepositoryProbes)

\* A live package run in which a transfer of one version failed and the
\* download of the version migratePackageVersions takes next (versions are
\* taken in ascending order) was requested.
C18_Witness ==
  \E t \in downloadFailed \cup uploadFailed :
    \E i \in 1..Len(calls) :
      /\ calls[i].op = "download"
      /\ calls[i].pkg = t.pkg
      /\ calls[i].version > t.version


(***************************************************************************)
(* Missing configuration.                                                   *)
(***************************************************************************)
\* The entry point with app authentication reads the three TARGET_ app
\* variables; src/cli.js reads TARGET_TOKEN.
AppAuthenticated == "TARGET_APP_ID" \in DOMAIN env

TargetCredentialMissing ==
  IF AppAuthenticated
  THEN \/ ~Truthy(env.TARGET_APP_ID)
       \/ ~Truthy(env.TARGET_INSTALLATION_ID)
       \/ ~Truthy(env.TARGET_PRIVATE_KEY_PATH)
  ELSE ~Truthy(env.TARGET_TOKEN)

\* One of the values the specification requires is absent: an organization
\* name, the source credential or the target credential.
RequiredValueMissing ==
  \/ ~Truthy(sourceOrgToUse)
  \/ ~Truthy(targetOrgToUse)
  \/ ~Truthy(env.SOURCE_TOKEN)
  \/ TargetCredentialMissing

\* C20: with a required value missing the run never gets past the
\* validation of runMigration: no client is created, no request is sent, no
\* migration function is entered, and the process exits with a non-zero
\* code.
C20_MissingValueFailsAtStartup ==
  RequiredValueMissing =>
    /\ clients = <<>>
    /\ calls = <<>>
    /\ received = <<>>
    /\ pc \in {"handler", "app-handler", "exited"}
    /\ pc = "exited" => exitCode # 0


(***************************************************************************)
(* `migrate teams` from the command line to the process exit: the entry     *)
(* point's runMigration, then migrateTeams step by step, then the           *)
(* handler's exit.                                                          *)
(***************************************************************************)
\* Either entry point with both organizations given, the credentials
\* present or absent, and a source organization of fewer than MaxTeams
\* teams without members or repositories.
InitTeamCommand ==
  /\ pc \in {"handler", "app-handler"}
  /\ dryRun = FALSE
  /\ calls = <<>>
  /\ \E dry \in BOOLEAN :
       argv = [component |-> "teams", dryRun |-> Bool(dry), verbose |-> Bool(FALSE),
               sourceOrg |-> Undefined, targetOrg |-> Undefined, packageType |-> Undefined]
  /\ \E st \in OptionalString("source-token"), tt \in OptionalString("target-token"),
        key \in OptionalString("private-key.pem") :
       env = IF pc = "handler"
             THEN [SOURCE_ORG |-> Str("env-source"), TARGET_ORG |-> Str("env-target"),
                   SOURCE_TOKEN |-> st, TARGET_TOKEN |-> tt]
             ELSE [SOURCE_ORG |-> Str("env-source"), TARGET_ORG |-> Str("env-target"),
                   SOURCE_TOKEN |-> st, TARGET_TOKEN |-> tt,
                   TARGET_APP_ID |-> Str("app-id"),
                   TARGET_INSTALLATION_ID |-> Str("installation-id"),
                   TARGET_PRIVATE_KEY_PATH |-> key]
  /\ clients = <<>>
  /\ received = <<>>
  /\ exitCode = NotExited
  /\ sourceTeams \in {l \in TeamListings : Len(l) < MaxTeams}
  /\ srcMembers = [t \in TeamSlugs |-> <<>>]
  /\ srcTeamRepos = [t \in TeamSlugs |-> <<>>]
  /\ usernameMappings = <<>>
  /\ targetRepos = {}
  /\ sortedTeams = <<>>
  /\ teamIdx = 0
  /\ teamMap = <<>>
  /\ teamHierarchy = NoReport
  /\ targetIdpGroups = {}
  /\ VariablesIdle
  /\ SecretsIdle
  /\ PackagesIdle
  /\ ListingsIdle

\* migrateTeams is entered: setVerbosity, the first log line, and
\* loadUsernameMappings without a mapping file.
EnterMigrateTeams ==
  /\ pc = "migrating"
  /\ argv.component = "teams"
  /\ pc' = "start"
  /\ UNCHANGED <<dryRun, calls, cliVars, secretVars, packageVars, teamVars, variableVars,
                 listingVars>>

\* Whether something failed inside migrateTeams: a request answered with an
\* error, or a report that was not emitted (the team listing failed, or a
\* team that could not be created made displayTeamHierarchy throw).
RunHadFailures ==
  \/ ~teamHierarchy.emitted
  \/ \E i \in 1..Len(calls) : ~calls[i].ok

\* migrateTeams' try/catch encloses the whole run and its catch only logs:
\* the promise of migrateTeams never rejects, whatever failed inside.
rejectsOnFailure(failed) == failed

migrateTeamsRejects(failed) == FALSE

\* migrateTeams settles and control is back in the handler: process.exit(1)
\* in its catch when the promise rejected; otherwise process.exit(0), or
\* the end of the handler of src/cli.js, after which the process ends with
\* code 0.
MigrateTeamsSettles ==
  /\ pc = "done"
  /\ received # <<>>
  /\ exitCode' = IF migrateTeamsRejects(RunHadFailures) THEN 1 ELSE 0
  /\ pc' = "exited"
  /\ UNCHANGED <<dryRun, calls, argv, env, clients, received>>
  /\ UNCHANGED <<secretVars, packageVars, teamVars, variableVars, listingVars>>

NextTeamCommand ==
  \/ ValidateConfiguration
  \/ NextAppCli
  \/ Dispatch
  \/ EnterMigrateTeams
  \/ NextTeams
  \/ MigrateTeamsSettles

SpecTeamCommand == InitTeamCommand /\ [][NextTeamCommand]_vars

(***************************************************************************)
(* Exit codes.                                                              *)
(***************************************************************************)
ExitedNonZero == pc = "exited" /\ exitCode # 0

\* The run was dispatched and ended: the exit code is 0 whatever failed
\* inside the migration.
DispatchedRunExitsZero == (pc = "exited" /\ received # <<>>) => exitCode = 0

\* createTargetOctokitInstance or createGraphQLInstance threw although the
\* configuration passed the validation.
ClientCreationFailed ==
  /\ AppAuthenticated
  /\ ~AppConfigurationMissing
  /\ pc = "exited"
  /\ clients = <<>>

\* testConnection threw.
ConnectionTestFailed ==
  /\ received = <<>>
  /\ \E i \in 1..Len(calls) :
       calls[i].op \in {"users.getAuthenticated", "orgs.get"} /\ ~calls[i].ok

\* C19 as stated: a dispatched run exits with 0 whatever failed, and the
\* exit code is non-zero only when a required configuration value is
\* missing (no run of the model ends in an unhandled rejection or an
\* uncaught exception).
C19_NonZeroOnlyForMissingConfiguration ==
  /\ DispatchedRunExitsZero
  /\ ExitedNonZero => RequiredValueMissing

\* C19, amended: a dispatched run exits with 0 whatever failed, and the
\* exit code is non-zero only when a required configuration value is
\* missing, when a client of the app-authenticated entry point cannot be
\* created, or when one of its connection tests fails.
C19_NonZeroOnlyBeforeDispatch ==
  /\ DispatchedRunExitsZero
  /\ ExitedNonZero =>
       \/ RequiredValueMissing
       \/ ClientCreationFailed
       \/ ConnectionTestFailed

\* A live run exited with 0 after the create call of a team failed.
C19_Witness ==
  /\ pc = "exited"
  /\ exitCode = 0
  /\ \E i \in 1..Len(calls) : calls[i].op = "teams.create" /\ ~calls[i].ok


(***************************************************************************)
(* The organizations of a run.                                              *)
(***************************************************************************)
\* The organization arguments of the migrationFunction(...) call: the fifth
\* and the sixth.
PassedSourceOrg == PassedArguments[5]
PassedTargetOrg == PassedArguments[6]

\* C21: when the run is dispatched with --source-org and SOURCE_ORG both
\* set, the source organization handed to the migration function is the
\* command-line value, and likewise --target-org wins over TARGET_ORG.
C21_CommandLineOrgOverridesEnv ==
  pc = "migrating" =>
    /\ (Truthy(argv.sourceOrg) /\ Truthy(env.SOURCE_ORG)) => PassedSourceOrg = argv.sourceOrg
    /\ (Truthy(argv.targetOrg) /\ Truthy(env.TARGET_ORG)) => PassedTargetOrg = argv.targetOrg


(***************************************************************************)
(* Dry-run reports against the creates of a live run.  A variable run and   *)
(* a team run are compared through the answers of the source: the items     *)
(* whose listing was answered are the ones a dry run has to report and a    *)
(* live run has to attempt.                                                 *)
(***************************************************************************)
\* The variables whose listing the source answered.
ListedVariables ==
  UNION {RepoItems(r) : r \in {q \in DOMAIN perRepo : perRepo[q] = "spawned"}}
  \cup (IF orgTask = "spawned" THEN OrgItems ELSE {})

\* The variables of the printed report.
ReportedVariables == {it \in VarItems : printed.value.variables[it] > 0}

\* The variables a create call was sent for.
AttemptedVariables == {it \in VarItems : createCalls[it] > 0}

\* The team names of a hierarchy report, children included.
RECURSIVE ReportedTeams(_)
ReportedTeams(nodes) ==
  UNION {{nodes[i].name}
         \cup (IF "children" \in DOMAIN nodes[i]
               THEN ReportedTeams(nodes[i].children) ELSE {}) : i \in 1..Len(nodes)}

\* The teams whose member listing the source answered in a dry run: the
\* ones processTeam stored, which are the ones a live run sends teams.create
\* for.
RecordedTeams == DOMAIN teamMap

AttemptedTeams == {calls[i].team : i \in CreateCalls}

\* A variable run that ended with every listing answered and every create
\* call settled.
VariableRunOver ==
  /\ varImpl # "none"
  /\ pc = "done"
  /\ repoTask = "spawned"
  /\ orgTask = "spawned"
  /\ \A r \in DOMAIN perRepo : perRepo[r] = "spawned"
  /\ \A it \in VarItems : varTask[it] # "pending"

TeamRunOver == varImpl = "none" /\ pc = "done" /\ teamIdx > 0

\* C22: at the end of a run in which the source answered the listings, a
\* dry run's report lists exactly the listed items and a live run attempted
\* a create for exactly those items: variables by repository or
\* organization and name, teams by the names of the hierarchy report.
C22_DryRunReportMatchesLiveCreates ==
  /\ VariableRunOver =>
       IF dryRun THEN ReportedVariables = ListedVariables
       ELSE AttemptedVariables = ListedVariables
  /\ (TeamRunOver /\ dryRun) => ReportedTeams(teamHierarchy.value) = RecordedTeams
  /\ (TeamRunOver /\ ~dryRun) =>
       AttemptedTeams = RecordedTeams \cup {calls[i].team : i \in {j \in CreateCalls : ~calls[j].ok}}

(***************************************************************************)
(* The rate-limit policy of the REST client (src/cli.js createOctokitInstance, *)
(* src/unnamed/part_000 createOctokitInstance).                            *)
(*                                                                         *)
(* The client is `new Octokit({request, auth, throttle: {onRateLimit,      *)
(* onAbuseLimit}})`, Octokit being the class imported from @octokit/rest.  *)
(* src/ imports no throttling plug-in and never calls Octokit.plugin(...), *)
(* so the throttle option has no reader: nothing calls the two handlers,   *)
(* and the answer to a request settles the caller's promise, whatever the  *)
(* answer is.  The handlers are kept as the operators onRateLimit and      *)
(* onAbuseLimit: what they would answer for a retry count.                 *)
(*                                                                         *)
(* calls holds one record per attempt:                                     *)
(*   request     the number of the request the attempt belongs to          *)
(*   retryCount  options.request.retryCount of the attempt: 0 for the      *)
(*               first attempt of a request                                *)
(*   answer      "pending", "ok", "error", "rate-limited", "abuse"         *)
(*   settled     "none" while pending, then "resolved" or "rejected"       *)
(***************************************************************************)
MaxRequests == 3
MaxRetryCount == 3

\* onRateLimit: `if (options.request.retryCount === 0) return true;`, and
\* no return statement otherwise.  verbose only adds a warning line.
onRateLimit(verbose, retryCount) ==
  IF retryCount = 0 THEN Bool(TRUE) ELSE Undefined

\* onAbuseLimit: warns when verbose, returns nothing.
onAbuseLimit(verbose, retryCount) == Undefined

Attempt(request, retryCount) ==
  [op |-> "request", request |-> request, retryCount |-> retryCount,
   answer |-> "pending", settled |-> "none"]

RequestsSent == {calls[i].request : i \in DOMAIN calls}

InitTransport ==
  /\ pc = "client-idle"
  /\ dryRun = FALSE
  /\ calls = <<>>
  /\ TeamsIdle
  /\ VariablesIdle
  /\ CliIdle
  /\ ListingsIdle
  /\ SecretsIdle
  /\ PackagesIdle

\* A caller awaits octokit.<method>(...): the first attempt of a request.
SendRequest ==
  /\ pc = "client-idle"
  /\ Cardinality(RequestsSent) < MaxRequests
  /\ calls' = Append(calls, Attempt(Cardinality(RequestsSent) + 1, 0))
  /\ pc' = "in-flight"
  /\ UNCHANGED <<dryRun, nonTeamVars, teamVars>>

\* The pending attempt is answered and the caller's promise settles.
Settle(answer, settled) ==
  /\ pc = "in-flight"
  /\ calls' = [calls EXCEPT ![Len(calls)].answer = answer,
                            ![Len(calls)].settled = settled]
  /\ pc' = "client-idle"
  /\ UNCHANGED <<dryRun, nonTeamVars, teamVars>>

RequestSucceeds == Settle("ok", "resolved")

RequestFails == Settle("error", "rejected")

\* The service answers that the quota is exhausted: an error status like
\* any other, the caller's promise rejects.
QuotaExhausted == Settle("rate-limited", "rejected")

\* The service answers that it detected abuse: likewise.
AbuseDetected == Settle("abuse", "rejected")

NextTransport ==
  \/ SendRequest
  \/ RequestSucceeds
  \/ RequestFails
  \/ QuotaExhausted
  \/ AbuseDetected

SpecTransport == InitTransport /\ [][NextTransport]_vars

AttemptsOf(request) == {i \in DOMAIN calls : calls[i].request = request}

QuotaAnswers == {i \in DOMAIN calls : calls[i].answer = "rate-limited"}

\* The attempt that follows attempt i of the same request.
RetryOf(i) ==
  {j \in DOMAIN calls : /\ j > i
                        /\ calls[j].request = calls[i].request
                        /\ calls[j].retryCount = calls[i].retryCount + 1}

\* C23: the handler asks for a retry exactly when the retry count is 0; an
\* attempt that got the quota-exhaustion answer is followed by a retry of
\* its request exactly when the handler asks for one for its retry count,
\* and is otherwise surfaced to the caller as a failure; no request is sent
\* more than twice.
C23_QuotaRetriedAtMostOnce ==
  /\ \A verbose \in BOOLEAN, retryCount \in 0..MaxRetryCount :
       Truthy(onRateLimit(verbose, retryCount)) <=> retryCount = 0
  /\ \A i \in QuotaAnswers : \A verbose \in BOOLEAN :
       IF Truthy(onRateLimit(verbose, calls[i].retryCount))
       THEN RetryOf(i) # {}
       ELSE RetryOf(i) = {} /\ calls[i].settled = "rejected"
  /\ \A request \in RequestsSent : Cardinality(AttemptsOf(request)) <= 2

(***************************************************************************)
(* Replay of a team's repository permissions.                               *)
(***************************************************************************)
\* The teams the live run created at the target.
CreatedTeams == {calls[i].team : i \in {j \in CreateCalls : calls[j].ok}}

\* The repository-permission calls for a team on a repository.
PermissionCalls(slug, name) ==
  {i \in DOMAIN calls : /\ calls[i].op = "addOrUpdateRepoPermissionsInOrg"
                        /\ calls[i].team = slug
                        /\ calls[i].arg = name}

\* The repositories the source team has access to.
SourceRepositories(slug) == Range(srcTeamRepos[slug])

\* C24: in a live run, for every team created at the target and every
\* repository the source team has access to, exactly one repository-
\* permission call is made for the new team on the same-named repository,
\* with permission admin if the admin flag is set, else push if the push
\* flag is set, else pull.
C24_OnePermissionCallPerSourceRepo ==
  \A slug \in CreatedTeams : \A repo \in SourceRepositories(slug) :
    /\ Cardinality(PermissionCalls(slug, repo.name)) = 1
    /\ \A i \in PermissionCalls(slug, repo.name) :
         calls[i].value = (IF repo.admin THEN "admin"
                           ELSE IF repo.push THEN "push" ELSE "pull")

(***************************************************************************)
(* Failed uploads of a Maven/Gradle version.                                *)
(***************************************************************************)
\* C25: once the run and every transfer have ended, a Maven version with
\* exactly one failed upload (and no failed download) has the failure
\* recorded for that file only and every other file of the version, those
\* of later upload chunks included, uploaded.
C25_OtherFilesStillUploaded ==
  (pc = "done" /\ orphans = {}) =>
    \A p \in 1..Len(srcPackages) : \A v \in Range(srcPackages[p].versions) :
      LET name == srcPackages[p].name
          failed == FailedOf(uploadFailed, name, v)
      IN (Cardinality(failed) = 1 /\ FailedOf(downloadFailed, name, v) = {}) =>
           \A f \in 1..srcPackages[p].files :
             IF \E t \in failed : t.file = f
             THEN [kind |-> "upload", pkg |-> name, version |-> v, file |-> f] \notin uploaded
             ELSE /\ Requested("upload", name, v, f)
                  /\ [kind |-> "upload", pkg |-> name, version |-> v, file |-> f] \in uploaded

(***************************************************************************)
(* JavaScript numbers and parseInt, as downloadMavenFilesParallel and       *)
(* uploadMavenFilesParallel apply them to MAVEN_CONCURRENCY                 *)
(* (src/migrations/packages.js:302, 350).                                   *)
(*                                                                          *)
(* A text is the sequence of its UTF-16 code units.  A number is <<n>> for  *)
(* an integer of magnitude up to MaxExact, <<1, 0>> or <<-1, 0>> for a      *)
(* number beyond MaxExact, of which the sign is kept, and the empty tuple   *)
(* for NaN.  The numbers the chunking loops compare with are indices of a   *)
(* file list, all far below MaxExact.                                       *)
(***************************************************************************)
MaxExact == 134217727

NaN == <<>>
Beyond(sign) == <<sign, 0>>
Num(n) ==
  IF n > MaxExact THEN Beyond(1) ELSE IF n < 0 - MaxExact THEN Beyond(0 - 1) ELSE <<n>>

IsExact(a) == Len(a) = 1

\* The value of a code unit as a digit: 0-9, then a-z and A-Z as 10..35; 36
\* when it is no digit of any radix.
DigitValue(unit) ==
  IF unit >= 48 /\ unit <= 57 THEN unit - 48
  ELSE IF unit >= 97 /\ unit <= 122 THEN unit - 87
  ELSE IF unit >= 65 /\ unit <= 90 THEN unit - 55
  ELSE 36

\* StrWhiteSpaceChar: tab, line feed, vertical tab, form feed, carriage
\* return, space, no-break space, the space separators U+1680,
\* U+2000..U+200A, U+202F, U+205F and U+3000, the line and paragraph
\* separators U+2028 and U+2029, and the byte order mark U+FEFF.
WhiteSpaceChars ==
  {9, 10, 11, 12, 13, 32, 160, 5760, 8232, 8233, 8239, 8287, 12288, 65279}
  \cup (8192..8202)

RECURSIVE TrimStart(_)
TrimStart(text) ==
  IF text # <<>> /\ Head(text) \in WhiteSpaceChars THEN TrimStart(Tail(text)) ELSE text

RECURSIVE DigitPrefix(_, _)
DigitPrefix(text, radix) ==
  IF text # <<>> /\ DigitValue(Head(text)) < radix
  THEN <<Head(text)>> \o DigitPrefix(Tail(text), radix)
  ELSE <<>>

\* The value of a run of digits; once it is beyond MaxExact the digits that
\* follow cannot bring it back.
RECURSIVE ValueOf(_, _, _)
ValueOf(digits, radix, acc) ==
  IF digits = <<>> THEN acc
  ELSE ValueOf(Tail(digits), radix,
               IF acc > MaxExact THEN acc ELSE radix * acc + DigitValue(Head(digits)))

\* parseInt(string) without a radix: leading white space is skipped, a sign
\* ('+' 43, '-' 45) is read, a 0x or 0X prefix ('0' 48, 'x' 120, 'X' 88)
\* makes the radix 16 (10 otherwise), then the longest run of digits of the
\* radix is read; NaN when there is none.
parseInt(text) ==
  LET trimmed == TrimStart(text)
      signed == trimmed # <<>> /\ Head(trimmed) \in {43, 45}
      unsigned == IF signed THEN Tail(trimmed) ELSE trimmed
      prefixed == Len(unsigned) >= 2 /\ unsigned[1] = 48 /\ unsigned[2] \in {120, 88}
      radix == IF prefixed THEN 16 ELSE 10
      digits == DigitPrefix(IF prefixed THEN Tail(Tail(unsigned)) ELSE unsigned, radix)
  IN IF digits = <<>> THEN NaN
     ELSE IF signed /\ Head(trimmed) = 45 THEN Num(0 - ValueOf(digits, radix, 0))
     ELSE Num(ValueOf(digits, radix, 0))

\* process.env.MAVEN_CONCURRENCY || '5': an unset variable and the empty
\* string are falsy ('5' is the code unit 53).
mavenConcurrency(setting) ==
  parseInt(IF ~setting.set \/ setting.text = <<>> THEN <<53>> ELSE setting.text)

\* a + b on JavaScript numbers.  A number beyond MaxExact stays beyond it
\* when a number of its sign or an exact number is added; the loops add
\* numbers of one sign only.
Plus(a, b) ==
  IF a = NaN \/ b = NaN THEN NaN
  ELSE IF ~IsExact(a) THEN (IF IsExact(b) \/ b = a THEN a ELSE NaN)
  ELSE IF ~IsExact(b) THEN b
  ELSE Num(a[1] + b[1])

\* a < b on JavaScript numbers, b an exact number or a beyond MaxExact on
\* the other side of zero.
LessThan(a, b) ==
  /\ a # NaN
  /\ b # NaN
  /\ IF ~IsExact(a) THEN a[1] < 0 /\ (IsExact(b) \/ b[1] > 0)
     ELSE IF ~IsExact(b) THEN b[1] > 0
     ELSE a[1] < b[1]

\* The relative index of Array.prototype.slice: NaN is 0, a negative index
\* counts from the end, the result is clamped to 0..len.
RelativeIndex(k, len) ==
  IF k = NaN THEN 0
  ELSE IF ~IsExact(k) THEN (IF k[1] < 0 THEN 0 ELSE len)
  ELSE IF k[1] < 0 THEN (IF len + k[1] < 0 THEN 0 ELSE len + k[1])
  ELSE IF k[1] > len THEN len ELSE k[1]

\* list.slice(start, end)
slice(list, start, end) ==
  LET from == RelativeIndex(start, Len(list))
      to == RelativeIndex(end, Len(list))
  IN IF from < to THEN SubSeq(list, from + 1, to) ELSE <<>>

(***************************************************************************)
(* Asset resolution of one package version (src/migrations/packages.js:    *)
(* migratePackageVersion's switch on package_type and the three list...     *)
(* PackageAssets functions; src/unnamed/part_002 holds a second definition  *)
(* of listMavenPackageAssets).                                             *)
(*                                                                         *)
(* In these runs atSource is the resolver that runs and what the source     *)
(* answers to it, and yielded is what the resolver handed to                *)
(* migratePackageVersion.                                                   *)
(*   maven      the answers of the GraphQL endpoint to the files query,     *)
(*              one per page: the file names of the page and whether a      *)
(*              page follows, or that the query failed, found no package    *)
(*              or found no version                                         *)
(*   npm        the answer to the manifest request                          *)
(*   container  the tags of version.metadata.container, or that the         *)
(*              version carries no metadata                                 *)
(***************************************************************************)
MaxPages == 3
MaxNodes == 2
MaxTags == 2

AssetResolvers ==
  {"listMavenPackageAssets", "listMavenPackageAssets (part_002)",
   "listNPMPackageAssets", "listContainerPackageAssets"}

PageKinds == {"files", "error", "no package", "no version"}

\* The file names of page k: `files(first: 100, after: $cursor)` serves the
\* files in a fixed order, and the last page is the one without a next page.
FilesPage(k, count, last) ==
  [kind |-> "files", nodes |-> [i \in 1..count |-> <<k, i>>],
   hasNextPage |-> ~last, endCursor |-> k]

FailedPage(kind) == [kind |-> kind, nodes |-> <<>>, hasNextPage |-> FALSE, endCursor |-> 0]

PagedAnswers ==
  UNION {{[k \in 1..n |-> IF kinds[k] = "files"
                          THEN FilesPage(k, counts[k], k = n)
                          ELSE FailedPage(kinds[k])] :
            kinds \in [1..n -> PageKinds], counts \in [1..n -> 0..MaxNodes]} :
         n \in 1..MaxPages}

ManifestAnswers == {"fetch threw", "not ok", "version missing", "tarball"}

NoMetadata == <<0>>

ContainerMetadata == {NoMetadata} \cup {[i \in 1..n |-> i] : n \in 0..MaxTags}

\* listMavenPackageAssets of src/migrations/packages.js: the loop
\* `while (hasNextPage)`, the cursor null (0) for the first query.  A
\* rejected query is caught and yields [], as do a missing package and a
\* missing version on any page.
RECURSIVE queryFilesFrom(_, _, _)
queryFilesFrom(pages, cursor, allAssets) ==
  LET result == pages[cursor + 1]
  IN IF result.kind # "files" THEN Returned(<<>>)
     ELSE IF result.hasNextPage
     THEN queryFilesFrom(pages, result.endCursor, allAssets \o result.nodes)
     ELSE Returned(allAssets \o result.nodes)

listMavenPackageAssets(pages) == queryFilesFrom(pages, 0, <<>>)

\* listMavenPackageAssets of src/unnamed/part_002: one query,
\* `files(first: 100)` without cursor or pageInfo.
listMavenPackageAssetsUnpaginated(pages) ==
  IF pages[1].kind # "files" THEN Returned(<<>>) ELSE Returned(pages[1].nodes)

\* listNPMPackageAssets: `await myFetch(...)` outside any try; a response
\* that is not ok and a version missing from the manifest yield [].
listNPMPackageAssets(manifest) ==
  CASE manifest = "fetch threw" -> Threw
    [] manifest = "not ok" -> Returned(<<>>)
    [] manifest = "version missing" -> Returned(<<>>)
    [] manifest = "tarball" -> Returned(<<"dist.tarball">>)

\* listContainerPackageAssets: iterates version.metadata.container.tags
\* .reverse() outside any try; reading .container of undefined throws.
listContainerPackageAssets(metadata) ==
  IF metadata = NoMetadata THEN Threw ELSE Returned(Reverse(metadata))

InitAssets ==
  /\ pc = "assets"
  /\ dryRun = FALSE
  /\ calls = <<>>
  /\ \E resolver \in AssetResolvers :
       \E answer \in (CASE resolver = "listNPMPackageAssets" -> ManifestAnswers
                        [] resolver = "listContainerPackageAssets" -> ContainerMetadata
                        [] OTHER -> PagedAnswers) :
         atSource = [resolver |-> resolver, answer |-> answer]
  /\ yielded = NotListed
  /\ TeamsIdle
  /\ VariablesIdle
  /\ CliIdle
  /\ SecretsIdle
  /\ PackagesIdle

\* migratePackageVersion's `filesToDownload = await list...Assets(...)`.
Resolve(resolver, result) ==
  /\ pc = "assets"
  /\ atSource.resolver = resolver
  /\ yielded' = result
  /\ pc' = "resolved"
  /\ UNCHANGED <<dryRun, calls, atSource, cliVars, secretVars, packageVars, teamVars, variableVars>>

ListMavenPackageAssets ==
  /\ atSource.resolver = "listMavenPackageAssets"
  /\ Resolve("listMavenPackageAssets", listMavenPackageAssets(atSource.answer))

ListMavenPackageAssetsUnpaginated ==
  /\ atSource.resolver = "listMavenPackageAssets (part_002)"
  /\ Resolve("listMavenPackageAssets (part_002)",
             listMavenPackageAssetsUnpaginated(atSource.answer))

ListNPMPackageAssets ==
  /\ atSource.resolver = "listNPMPackageAssets"
  /\ Resolve("listNPMPackageAssets", listNPMPackageAssets(atSource.answer))

ListContainerPackageAssets ==
  /\ atSource.resolver = "listContainerPackageAssets"
  /\ Resolve("listContainerPackageAssets", listContainerPackageAssets(atSource.answer))

\* The values of MAVEN_CONCURRENCY the transfer of a resolved version is
\* followed for: unset, 1 and 2.
TransferSettings ==
  {[set |-> FALSE, text |-> <<>>], [set |-> TRUE, text |-> <<49>>],
   [set |-> TRUE, text |-> <<50>>]}

\* The files migratePackageVersion requests first.  downloadMavenFilesParallel
\* (src/migrations/packages.js) starts the downloads of its first chunk
\* together; the Maven branch of src/unnamed/part_002 and the npm and
\* container branches await downloadPackageFiles file by file.
FirstRequested(resolver, files, setting) ==
  IF resolver = "listMavenPackageAssets"
  THEN slice(files, Num(0), Plus(Num(0), mavenConcurrency(setting)))
  ELSE <<Head(files)>>

\* What follows the resolver in migratePackageVersion: a throw goes through
\* its catch to migratePackageVersions, which logs it and takes the next
\* version; an empty list is warned about and the function returns; any
\* other list starts the transfer with the first requests, unless what
\* precedes them throws (prepared: fs.mkdirSync of packages/<name>, and for
\* a container docker login at the source).
AfterResolution ==
  /\ pc = "resolved"
  /\ IF yielded = Threw \/ yielded.items = <<>>
     THEN /\ pc' = "next-version"
          /\ UNCHANGED calls
     ELSE \E setting \in TransferSettings, prepared \in BOOLEAN :
            LET first == FirstRequested(atSource.resolver, yielded.items, setting)
            IN IF prepared
               THEN /\ pc' = "transfer"
                    /\ calls' = [i \in 1..Len(first) |->
                                   PackageCall("download", PackageName(1), 1, first[i], 0)]
               ELSE /\ pc' = "next-version"
                    /\ UNCHANGED calls
  /\ UNCHANGED <<dryRun, listingVars, cliVars, secretVars, packageVars, teamVars, variableVars>>

NextAssets ==
  \/ ListMavenPackageAssets
  \/ ListMavenPackageAssetsUnpaginated
  \/ ListNPMPackageAssets
  \/ ListContainerPackageAssets
  \/ AfterResolution

SpecAssets == InitAssets /\ [][NextAssets]_vars

\* The page at which the paging of the files query ends: the first page that
\* is not a page of files, or the last page.
RECURSIVE EndOfPaging(_, _)
EndOfPaging(pages, k) ==
  IF pages[k].kind # "files" \/ ~pages[k].hasNextPage THEN k
  ELSE EndOfPaging(pages, k + 1)

MavenResolution ==
  atSource.resolver \in {"listMavenPackageAssets", "listMavenPackageAssets (part_002)"}

\* The resolution of the version's assets fails.
ResolutionFails ==
  CASE atSource.resolver = "listNPMPackageAssets" -> atSource.answer # "tarball"
    [] atSource.resolver = "listContainerPackageAssets" -> atSource.answer = NoMetadata
    [] atSource.resolver = "listMavenPackageAssets" ->
         atSource.answer[EndOfPaging(atSource.answer, 1)].kind # "files"
    [] OTHER -> atSource.answer[1].kind # "files"

\* C26: when the resolution of a version's assets fails (GraphQL error,
\* manifest request failing or throwing, version missing from the manifest,
\* missing container metadata), the resolver yields the empty list, no
\* download or upload is started for the version, and the run goes on to the
\* next version.
C26_FailedResolutionYieldsEmptyList ==
  (pc # "assets" /\ ResolutionFails) =>
    /\ yielded = Returned(<<>>)
    /\ calls = <<>>
    /\ pc \in {"resolved", "next-version"}

\* The file names of pages 1..k, in page order.
RECURSIVE NodesThrough(_, _)
NodesThrough(pages, k) ==
  IF k = 0 THEN <<>> ELSE NodesThrough(pages, k - 1) \o pages[k].nodes

\* C27: listMavenPackageAssets returns the file names of all pages in page
\* order, following endCursor while hasNextPage is true and stopping at the
\* first page whose hasNextPage is false, however many nodes a page holds; a
\* failure on any page yields the empty list, never a partial one.
C27_MavenAssetsOfAllPages ==
  (MavenResolution /\ pc # "assets") =>
    LET pages == atSource.answer
        end == EndOfPaging(pages, 1)
    IN yielded = IF pages[end].kind # "files" THEN Returned(<<>>)
                 ELSE Returned(NodesThrough(pages, end))

(***************************************************************************)
(* processTeam request by request (src/migrations/teams.js:155-185 with    *)
(* fetchTeamMembers, fetchTeamRepositories, createTeamInTargetOrg,         *)
(* migrateTeamMembers and migrateTeamRepositories).  In these runs calls   *)
(* holds the requests to the source as well as those to the target,        *)
(* yielded holds processTeam's membersWithRoles and repositories while a   *)
(* team is processed, and atSource is the set of logins the target         *)
(* organization refuses a membership for.                                  *)
(***************************************************************************)
OrderTeams == 2
OrderMembers == 2
OrderRepos == 2

SourceOps == {"listMembersInOrg", "getMembershipForUserInOrg", "listReposInOrg"}

SourceCall(op, slug, arg, ok) ==
  [op |-> op, team |-> slug, arg |-> arg, value |-> "", ok |-> ok]

\* What the source holds of a team's repositories: the permission flags.
ReposAtSource(n) == [i \in 1..n |-> [name |-> i, admin |-> i = 1, push |-> i <= 2]]

\* The members and the repositories of the k-th team: the first team has
\* OrderMembers members and OrderRepos repositories, every later team one
\* less of each.
MembersOfTeam(k) == [i \in 1..(IF k > OrderMembers THEN 0 ELSE OrderMembers + 1 - k) |-> i]
ReposOfTeam(k) == ReposAtSource(IF k > OrderRepos THEN 0 ELSE OrderRepos + 1 - k)

\* Teams in a chain (every team the child of the one listed before it); the
\* target organization holds all the repositories or all but the first and
\* accepts every login or all but the first.
InitTeamOrder ==
  /\ pc = "start"
  /\ dryRun \in BOOLEAN
  /\ calls = <<>>
  /\ sourceTeams = [k \in 1..OrderTeams |-> [slug |-> k, parent |-> k - 1]]
  /\ srcMembers = [t \in TeamSlugs |-> IF t <= OrderTeams THEN MembersOfTeam(t) ELSE <<>>]
  /\ srcTeamRepos = [t \in TeamSlugs |-> IF t <= OrderTeams THEN ReposOfTeam(t) ELSE <<>>]
  /\ usernameMappings \in {<<>>, [l \in {1} |-> OrderMembers + 1]}
  /\ targetRepos \in {1..OrderRepos, 2..OrderRepos}
  /\ atSource \in {{}, {1}}
  /\ yielded = <<>>
  /\ sortedTeams = <<>>
  /\ teamIdx = 0
  /\ teamMap = <<>>
  /\ teamHierarchy = NoReport
  /\ targetIdpGroups = {}
  /\ VariablesIdle
  /\ CliIdle
  /\ SecretsIdle
  /\ PackagesIdle

MembershipCalls(slug) ==
  {i \in DOMAIN calls : /\ calls[i].op = "addOrUpdateMembershipForUserInOrg"
                        /\ calls[i].team = slug}

RepositoryCalls(slug) ==
  {i \in DOMAIN calls : /\ calls[i].op = "addOrUpdateRepoPermissionsInOrg"
                        /\ calls[i].team = slug}

\* Where createTeamInTargetOrg stands after m membership calls and r
\* repository-permission calls: in the loop of migrateTeamMembers, in the
\* loop of migrateTeamRepositories, or back in migrateTeams' loop.
ReplayPosition(members, repositories, m, r) ==
  IF m < Len(members) THEN "addOrUpdateMembershipForUserInOrg"
  ELSE IF r < Len(repositories) THEN "addOrUpdateRepoPermissionsInOrg"
  ELSE "teams"

\* The replay that does not wait for the create call's answer.
replayWhateverTheAnswer(createOk, replay) == replay

\* After `await targetOctokit.teams.create(...)`: the replay when the call
\* returned; the catch of createTeamInTargetOrg, and with it the end of
\* processTeam, when it threw.
afterCreate(createOk, replay) == IF createOk THEN replay ELSE "teams"

\* The step that leaves processTeam hands the loop to the next team.
LeaveTeam(position) ==
  /\ pc' = position
  /\ teamIdx' = IF position = "teams" THEN teamIdx + 1 ELSE teamIdx

\* fetchTeamMembers: paginate(teams.listMembersInOrg).  A throw is caught by
\* processTeam, which logs it and returns.
ListTeamMembers ==
  /\ pc = "teams"
  /\ teamIdx <= Len(sortedTeams)
  /\ \E ok \in BOOLEAN :
       /\ calls' = Append(calls, SourceCall("listMembersInOrg", sortedTeams[teamIdx].slug, 0, ok))
       /\ LeaveTeam(IF ok THEN "getMembershipForUserInOrg" ELSE "teams")
  /\ yielded' = <<>>
  /\ UNCHANGED <<dryRun, sourceTeams, srcMembers, srcTeamRepos, usernameMappings,
                 targetRepos, sortedTeams, teamMap, teamHierarchy, targetIdpGroups>>
  /\ UNCHANGED <<atSource, cliVars, secretVars, packageVars, variableVars>>

\* fetchTeamMembers: members.map(...) sends one getMembershipForUserInOrg
\* request per listed member, Promise.all awaits them and filter(Boolean)
\* drops the members whose request failed.
LookUpRoles ==
  /\ pc = "getMembershipForUserInOrg"
  /\ LET slug == sortedTeams[teamIdx].slug
         members == srcMembers[slug]
     IN \E roleFail \in SUBSET Range(members) :
          /\ calls' = calls \o [i \in 1..Len(members) |->
                                  SourceCall("getMembershipForUserInOrg", slug, members[i],
                                             members[i] \notin roleFail)]
          /\ yielded' = [members |-> fetchTeamMembers(members,
                                                      [l \in Range(members) |-> RoleAtSource(l)],
                                                      roleFail),
                         repositories |-> <<>>]
  /\ pc' = "listReposInOrg"
  /\ UNCHANGED <<dryRun, sourceTeams, srcMembers, srcTeamRepos, usernameMappings,
                 targetRepos, sortedTeams, teamIdx, teamMap, teamHierarchy, targetIdpGroups>>
  /\ UNCHANGED <<atSource, cliVars, secretVars, packageVars, variableVars>>

\* fetchTeamRepositories: paginate(teams.listReposInOrg), [] when it throws;
\* then processTeam's branch on dryRun: a dry run records the team and
\* returns, a live run enters createTeamInTargetOrg.
ListTeamRepositories ==
  /\ pc = "listReposInOrg"
  /\ LET team == sortedTeams[teamIdx]
     IN \E listOk \in BOOLEAN :
          LET repositories == fetchTeamRepositories(srcTeamRepos[team.slug], listOk)
              recorded == [id |-> team.slug, slug |-> team.slug,
                           members |-> yielded.members, repositories |-> repositories]
          IN /\ calls' = Append(calls, SourceCall("listReposInOrg", team.slug, 0, listOk))
             /\ IF dryRun
                THEN /\ teamMap' = (team.slug :> recorded) @@ teamMap
                     /\ yielded' = <<>>
                     /\ LeaveTeam("teams")
                ELSE /\ yielded' = [yielded EXCEPT !.repositories = repositories]
                     /\ LeaveTeam("teams.create")
                     /\ UNCHANGED teamMap
  /\ UNCHANGED <<dryRun, sourceTeams, srcMembers, srcTeamRepos, usernameMappings,
                 targetRepos, sortedTeams, teamHierarchy, targetIdpGroups>>
  /\ UNCHANGED <<atSource, cliVars, secretVars, packageVars, variableVars>>

\* createTeamInTargetOrg up to the answer of teams.create: the new team is
\* stored in teamMap when the call returned.
CreateTeam ==
  /\ pc = "teams.create"
  /\ LET team == sortedTeams[teamIdx]
         created == [id |-> NewTeamId(calls), slug |-> team.slug,
                     members |-> yielded.members, repositories |-> yielded.repositories]
     IN \E createOk \in BOOLEAN :
          LET position == afterCreate(createOk,
                                      ReplayPosition(yielded.members, yielded.repositories, 0, 0))
          IN /\ calls' = Append(calls, createCall(team, teamMap, createOk))
             /\ teamMap' = IF createOk THEN (team.slug :> created) @@ teamMap ELSE teamMap
             /\ yielded' = IF position = "teams" THEN <<>> ELSE yielded
             /\ LeaveTeam(position)
  /\ UNCHANGED <<dryRun, sourceTeams, srcMembers, srcTeamRepos, usernameMappings,
                 targetRepos, sortedTeams, teamHierarchy, targetIdpGroups>>
  /\ UNCHANGED <<atSource, cliVars, secretVars, packageVars, variableVars>>

\* One pass of the loop of migrateTeamMembers: the membership call of the
\* next member; a failure (a login the target refuses) is logged and the
\* loop goes on.
AddMember ==
  /\ pc = "addOrUpdateMembershipForUserInOrg"
  /\ LET slug == sortedTeams[teamIdx].slug
         m == Cardinality(MembershipCalls(slug))
         position == ReplayPosition(yielded.members, yielded.repositories, m + 1, 0)
     IN /\ calls' = Append(calls, migrateTeamMembers(slug, yielded.members, usernameMappings,
                                                     atSource)[m + 1])
        /\ yielded' = IF position = "teams" THEN <<>> ELSE yielded
        /\ LeaveTeam(position)
  /\ UNCHANGED <<dryRun, sourceTeams, srcMembers, srcTeamRepos, usernameMappings,
                 targetRepos, sortedTeams, teamMap, teamHierarchy, targetIdpGroups>>
  /\ UNCHANGED <<atSource, cliVars, secretVars, packageVars, variableVars>>

\* One pass of the loop of migrateTeamRepositories: the permission call of
\* the next repository; a failure (a repository the target does not hold)
\* is logged and the loop goes on.
GrantRepository ==
  /\ pc = "addOrUpdateRepoPermissionsInOrg"
  /\ LET slug == sortedTeams[teamIdx].slug
         r == Cardinality(RepositoryCalls(slug))
         position == ReplayPosition(yielded.members, yielded.repositories,
                                    Len(yielded.members), r + 1)
     IN /\ calls' = Append(calls, migrateTeamRepositories(slug, yielded.repositories,
                                                          targetRepos, {})[r + 1])
        /\ yielded' = IF position = "teams" THEN <<>> ELSE yielded
        /\ LeaveTeam(position)
  /\ UNCHANGED <<dryRun, sourceTeams, srcMembers, srcTeamRepos, usernameMappings,
                 targetRepos, sortedTeams, teamMap, teamHierarchy, targetIdpGroups>>
  /\ UNCHANGED <<atSource, cliVars, secretVars, packageVars, variableVars>>

NextTeamOrder ==
  \/ FetchSourceTeams
  \/ ListTeamMembers
  \/ LookUpRoles
  \/ ListTeamRepositories
  \/ CreateTeam
  \/ AddMember
  \/ GrantRepository
  \/ DisplayTeamHierarchy

SpecTeamOrder == InitTeamOrder /\ [][NextTeamOrder]_vars

\* The requests of one kind sent for a team.
CallsOf(op, slug) == {i \in DOMAIN calls : calls[i].op = op /\ calls[i].team = slug}

SourceCallsOf(slug) == {i \in DOMAIN calls : calls[i].op \in SourceOps /\ calls[i].team = slug}

\* processTeam has returned for the team.
TeamOver(slug) == \E k \in 1..Len(sortedTeams) : k < teamIdx /\ sortedTeams[k].slug = slug

\* The members the source answered a role for, in the order of the role
\* requests.
RolesAnswered(slug) ==
  LET asked == SelectSeq([k \in 1..Len(calls) |-> k],
                         LAMBDA k : /\ k \in CallsOf("getMembershipForUserInOrg", slug)
                                    /\ calls[k].ok)
  IN [m \in 1..Len(asked) |-> calls[asked[m]].arg]

\* The calls after call i are the membership calls of the members in
\* fetched, in their order, as far as they have been sent.
MembersReplayedFrom(i, slug, fetched) ==
  /\ MembershipCalls(slug) = (i + 1)..(i + Cardinality(MembershipCalls(slug)))
  /\ Cardinality(MembershipCalls(slug)) <= Len(fetched)
  /\ \A m \in 1..Cardinality(MembershipCalls(slug)) :
       /\ calls[i + m].arg = targetUsername(usernameMappings, fetched[m].login)
       /\ calls[i + m].value = fetched[m].role

RepositoriesReplayedFrom(i, slug, fetched) ==
  /\ RepositoryCalls(slug) = (i + 1)..(i + Cardinality(RepositoryCalls(slug)))
  /\ Cardinality(RepositoryCalls(slug)) <= Len(fetched)
  /\ \A r \in 1..Cardinality(RepositoryCalls(slug)) :
       /\ calls[i + r].arg = fetched[r].name
       /\ calls[i + r].value = fetched[r].permission

\* C28: in a live run of migrations/teams.js the requests for a team occur
\* in the order: member listing, role requests and repository listing at the
\* source, then the create call, then the membership calls, then the
\* repository-permission calls.  Every request to the source for the team
\* precedes its create call, the membership calls follow the create call
\* without a gap and the repository-permission calls follow the last
\* membership call, for the members and repositories that were fetched, all
\* of them once processTeam has returned; after a failed create call no
\* membership or repository-permission call is made for the team, and none
\* is made for a team without a create call.
C28_TeamCallsInOrder ==
  ~dryRun =>
    /\ \A i \in CreateCalls :
         LET slug == calls[i].team
             fetched == teamMap[slug]
         IN /\ CallsOf("teams.create", slug) = {i}
            /\ \E j \in CallsOf("listMembersInOrg", slug) :
                 \E k \in CallsOf("listReposInOrg", slug) :
                   /\ CallsOf("listMembersInOrg", slug) = {j}
                   /\ CallsOf("listReposInOrg", slug) = {k}
                   /\ calls[j].ok
                   /\ j < k /\ k < i
                   /\ \A q \in CallsOf("getMembershipForUserInOrg", slug) : j < q /\ q < k
            /\ \A q \in SourceCallsOf(slug) : q < i
            /\ ~calls[i].ok => MembershipCalls(slug) \cup RepositoryCalls(slug) = {}
            /\ calls[i].ok =>
                 /\ slug \in DOMAIN teamMap
                 /\ [m \in 1..Len(fetched.members) |-> fetched.members[m].login]
                      = RolesAnswered(slug)
                 /\ MembersReplayedFrom(i, slug, fetched.members)
                 /\ RepositoryCalls(slug) # {} =>
                      Cardinality(MembershipCalls(slug)) = Len(fetched.members)
                 /\ RepositoriesReplayedFrom(i + Len(fetched.members), slug,
                                             fetched.repositories)
                 /\ TeamOver(slug) =>
                      /\ Cardinality(MembershipCalls(slug)) = Len(fetched.members)
                      /\ Cardinality(RepositoryCalls(slug)) = Len(fetched.repositories)
    /\ \A slug \in TeamSlugs :
         /\ MembershipCalls(slug) \cup RepositoryCalls(slug) # {} =>
              \E i \in CreateCalls : calls[i].team = slug
         /\ (TeamOver(slug) /\ \E j \in CallsOf("listMembersInOrg", slug) : calls[j].ok) =>
              \E i \in CreateCalls : calls[i].team = slug

\* A live run over: a team created with two membership calls, one of them
\* refused, and two repository-permission calls after two role requests
\* and the repository listing, and a team whose create call failed.
C28_Witness ==
  /\ ~dryRun
  /\ pc = "done"
  /\ \E i \in CreateCalls :
       /\ calls[i].ok
       /\ Cardinality(MembershipCalls(calls[i].team)) >= 2
       /\ \E m \in MembershipCalls(calls[i].team) : ~calls[m].ok
       /\ Cardinality(RepositoryCalls(calls[i].team)) >= 2
       /\ Cardinality(CallsOf("getMembershipForUserInOrg", calls[i].team)) >= 2
  /\ \E i \in CreateCalls :
       /\ ~calls[i].ok
       /\ SourceCallsOf(calls[i].team) # {}

(***************************************************************************)
(* The legacy team migration (src/teams.js): migrateTeams(sourceOctokit,    *)
(* targetOctokit, sourceOrg, targetOrg, dryRun), one function with the      *)
(* whole loop inline.  A member whose role lookup fails stays in the        *)
(* member list as null; the membership and repository-permission calls of   *)
(* a team share one try with its create call; the source repositories are   *)
(* listed after the membership calls; findIdpGroupByName has no return      *)
(* statement, so no team ever gets an IdP group.                            *)
(***************************************************************************)
NullMember == [login |-> 0, role |-> "null"]

\* The members the legacy runs replay: one more than MaxMembers, so that a
\* member has a successor.
RosterLogins == 1..(MaxMembers + 1)

\* await Promise.all(memberPromises): a failed role lookup maps to null.
legacyMembersWithRoles(members, roleOf, roleFail) ==
  [i \in 1..Len(members) |->
     IF members[i] \in roleFail THEN NullMember
     ELSE [login |-> members[i], role |-> roleOf[members[i]]]]

\* A loop of awaited requests without a try of its own: the requests up to
\* and including the first one that is rejected.
RECURSIVE UntilRejected(_)
UntilRejected(requests) ==
  IF requests = <<>> THEN <<>>
  ELSE IF ~Head(requests).ok THEN <<Head(requests)>>
  ELSE <<Head(requests)>> \o UntilRejected(Tail(requests))

Rejected(requests) == \E i \in 1..Len(requests) : ~requests[i].ok

\* The live branch of the loop body: teams.create, teamMap.set, one
\* membership call per member that is not null, the source's
\* listReposInOrg, one permission call per listed repository; the first
\* rejection ends the team in the catch of the branch.
legacyTeamRequests(team, tmap, membersWithRoles, repos, reposOk, tRepos, createOk, addFail, grantFail) ==
  IF ~createOk THEN <<createCall(team, tmap, FALSE)>>
  ELSE LET added == migrateTeamMembers(team.slug,
                                       SelectSeq(membersWithRoles, LAMBDA m : m # NullMember),
                                       <<>>, addFail)
           granted == migrateTeamRepositories(team.slug, fetchTeamRepositories(repos, TRUE),
                                              tRepos, grantFail)
       IN <<createCall(team, tmap, TRUE)>>
          \o UntilRejected(added)
          \o (IF Rejected(added) \/ ~reposOk THEN <<>> ELSE UntilRejected(granted))

\* displayTeamHierarchy of src/teams.js: teamInfo.members.map reads .login
\* of every entry, which throws for a team never stored and for a null
\* member.  A team's group is its override, else the default override.
RECURSIVE legacyDisplayTeamHierarchy(_, _, _, _)
legacyDisplayTeamHierarchy(teams, tmap, override, parentSlug) ==
  LET sel == SelectSeq(teams, LAMBDA t : t.parent = parentSlug)
      Node(t) ==
        IF t.slug \notin DOMAIN tmap THEN [threw |-> TRUE, value |-> <<>>]
        ELSE IF \E i \in 1..Len(tmap[t.slug].members) : tmap[t.slug].members[i] = NullMember
        THEN [threw |-> TRUE, value |-> <<>>]
        ELSE LET kids == legacyDisplayTeamHierarchy(teams, tmap, override, t.slug)
                 info == tmap[t.slug]
                 base == [name |-> t.slug,
                          idpGroup |-> overriddenIdpGroup(teamIdpGroups(override), t.slug),
                          members |-> [i \in 1..Len(info.members) |->
                                         [login |-> info.members[i].login,
                                          role |-> info.members[i].role]]]
             IN IF kids.threw THEN [threw |-> TRUE, value |-> <<>>]
                ELSE [threw |-> FALSE,
                      value |-> IF Len(kids.value) > 0
                                THEN base @@ [children |-> kids.value]
                                ELSE base]
      nodes == [i \in 1..Len(sel) |-> Node(sel[i])]
  IN IF \E i \in 1..Len(sel) : nodes[i].threw
     THEN [threw |-> TRUE, value |-> <<>>]
     ELSE [threw |-> FALSE, value |-> [i \in 1..Len(sel) |-> nodes[i].value]]

\* One parentless team with up to MaxMembers + 1 members and its
\* repositories, the target holding any subset of the repositories.
InitLegacyTeams ==
  /\ pc = "legacy-start"
  /\ dryRun \in BOOLEAN
  /\ calls = <<>>
  /\ sourceTeams = <<[slug |-> 1, parent |-> NoParent]>>
  /\ \E m \in InjectiveSeqs(RosterLogins, MaxMembers + 1) :
       srcMembers = [t \in TeamSlugs |-> IF t = 1 THEN m ELSE <<>>]
  /\ \E r \in RepoListings :
       srcTeamRepos = [t \in TeamSlugs |-> IF t = 1 THEN r ELSE <<>>]
  /\ usernameMappings = <<>>
  /\ targetRepos \in SUBSET RepoNames
  /\ sortedTeams = <<>>
  /\ teamIdx = 0
  /\ teamMap = <<>>
  /\ teamHierarchy = NoReport
  /\ targetIdpGroups = {}
  /\ VariablesIdle
  /\ CliIdle
  /\ ListingsIdle
  /\ SecretsIdle
  /\ PackagesIdle

\* Up to the loop: getTargetIdpGroupMappings (a live run asks the target; a
\* failure yields []), the paginated teams.list and teams.sort.  A rejected
\* teams.list lands in migrateTeams' catch, which only logs.
LegacyFetchSourceTeams ==
  /\ pc = "legacy-start"
  /\ \E groupsOk \in BOOLEAN, listOk \in BOOLEAN :
       /\ dryRun => groupsOk
       /\ calls' = IF dryRun THEN calls
                   ELSE Append(calls, [op |-> "listIdpGroupsForOrg", team |-> 0, arg |-> 0,
                                       value |-> "", ok |-> groupsOk])
       /\ IF listOk
          THEN /\ sortedTeams' = sortTeamsByHierarchy(sourceTeams)
               /\ teamIdx' = 1
               /\ pc' = "legacy-teams"
          ELSE /\ pc' = "done"
               /\ UNCHANGED <<sortedTeams, teamIdx>>
  /\ UNCHANGED <<dryRun, sourceTeams, srcMembers, srcTeamRepos, usernameMappings,
                 targetRepos, teamMap, teamHierarchy, targetIdpGroups>>
  /\ UNCHANGED nonTeamVars

\* The loop body for the team at teamIdx.  A rejected listMembersInOrg is
\* outside the inner try: it ends the whole run in migrateTeams' catch.
LegacyProcessTeam ==
  /\ pc = "legacy-teams"
  /\ teamIdx <= Len(sortedTeams)
  /\ LET team == sortedTeams[teamIdx]
         members == srcMembers[team.slug]
         repos == srcTeamRepos[team.slug]
     IN \E membersOk \in BOOLEAN :
          IF ~membersOk
          THEN /\ pc' = "done"
               /\ UNCHANGED <<calls, teamMap, teamIdx>>
          ELSE \E roleOf \in [Range(members) -> Roles], roleFail \in SUBSET Range(members),
                  createOk \in BOOLEAN, addFail \in SUBSET Range(members),
                  reposOk \in BOOLEAN,
                  grantFail \in SUBSET {repos[i].name : i \in 1..Len(repos)} :
                 LET membersWithRoles == legacyMembersWithRoles(members, roleOf, roleFail)
                     issued == legacyTeamRequests(team, teamMap, membersWithRoles, repos,
                                                  reposOk, targetRepos, createOk, addFail,
                                                  grantFail)
                     created == [id |-> NewTeamId(calls), slug |-> team.slug,
                                 members |-> membersWithRoles, idpGroup |-> NoGroup]
                     recorded == [id |-> team.slug, slug |-> team.slug,
                                  members |-> membersWithRoles, idpGroup |-> NoGroup]
                 IN /\ dryRun => ~createOk
                    /\ ~createOk => addFail = {} /\ grantFail = {} /\ ~reposOk
                    /\ calls' = calls \o processTeamCalls(dryRun, issued)
                    /\ teamMap' = IF dryRun THEN (team.slug :> recorded) @@ teamMap
                                  ELSE IF createOk THEN (team.slug :> created) @@ teamMap
                                  ELSE teamMap
                    /\ teamIdx' = teamIdx + 1
                    /\ UNCHANGED pc
  /\ UNCHANGED <<dryRun, sourceTeams, srcMembers, srcTeamRepos, usernameMappings,
                 targetRepos, sortedTeams, teamHierarchy, targetIdpGroups>>
  /\ UNCHANGED nonTeamVars

\* After the loop: displayTeamHierarchy and console.log of the report; a
\* throw lands in migrateTeams' catch.
LegacyDisplayTeamHierarchy ==
  /\ pc = "legacy-teams"
  /\ teamIdx > Len(sortedTeams)
  /\ \E override \in IdpGroupOverrides :
       LET h == legacyDisplayTeamHierarchy(sortedTeams, teamMap, override, NoParent)
       IN teamHierarchy' = IF h.threw THEN NoReport
                           ELSE [emitted |-> TRUE, value |-> h.value]
  /\ pc' = "done"
  /\ UNCHANGED <<dryRun, calls, sourceTeams, srcMembers, srcTeamRepos, usernameMappings,
                 targetRepos, sortedTeams, teamIdx, teamMap, targetIdpGroups>>
  /\ UNCHANGED nonTeamVars

NextLegacyTeams ==
  \/ LegacyFetchSourceTeams
  \/ LegacyProcessTeam
  \/ LegacyDisplayTeamHierarchy

\* The same organizations given to migrations/teams.js.
InitTeamRoster ==
  /\ pc = "start"
  /\ dryRun \in BOOLEAN
  /\ calls = <<>>
  /\ sourceTeams = <<[slug |-> 1, parent |-> NoParent]>>
  /\ \E m \in InjectiveSeqs(RosterLogins, MaxMembers + 1) :
       srcMembers = [t \in TeamSlugs |-> IF t = 1 THEN m ELSE <<>>]
  /\ \E r \in RepoListings :
       srcTeamRepos = [t \in TeamSlugs |-> IF t = 1 THEN r ELSE <<>>]
  /\ usernameMappings = <<>>
  /\ targetRepos \in SUBSET RepoNames
  /\ sortedTeams = <<>>
  /\ teamIdx = 0
  /\ teamMap = <<>>
  /\ teamHierarchy = NoReport
  /\ targetIdpGroups = {}
  /\ VariablesIdle
  /\ CliIdle
  /\ ListingsIdle
  /\ SecretsIdle
  /\ PackagesIdle

\* Either definition of migrateTeams on such an organization.
InitTeamRosters == InitTeamRoster \/ InitLegacyTeams

NextTeamRosters == NextTeams \/ NextLegacyTeams

SpecTeamRoster == InitTeamRosters /\ [][NextTeamRosters]_vars

\* The members and repositories a team's replay was given.
MembersToReplay(slug) == SelectSeq(teamMap[slug].members, LAMBDA m : m # NullMember)

RepositoriesToReplay(slug) ==
  IF "repositories" \in DOMAIN teamMap[slug] THEN teamMap[slug].repositories
  ELSE fetchTeamRepositories(srcTeamRepos[slug], TRUE)

FailedMembershipCalls(slug) == {i \in MembershipCalls(slug) : ~calls[i].ok}

\* C29: when an add-membership call of a created team fails, every other
\* member of the team still gets its membership call and every repository
\* of the team its repository-permission call.
C29_FailedMemberDoesNotStopTeam ==
  \A slug \in CreatedTeams :
    FailedMembershipCalls(slug) # {} =>
      /\ \A m \in Range(MembersToReplay(slug)) :
           \E i \in MembershipCalls(slug) : calls[i].arg = m.login
      /\ \A r \in Range(RepositoriesToReplay(slug)) :
           \E i \in RepositoryCalls(slug) : calls[i].arg = r.name /\ calls[i].value = r.permission

\* The source members of a stored team whose role lookup failed: the ones
\* the stored member list has no entry for.
StoredLogins(slug) ==
  {teamMap[slug].members[i].login : i \in 1..Len(teamMap[slug].members)} \ {NullMember.login}

RoleLookupFailed(slug) ==
  /\ slug \in DOMAIN teamMap
  /\ Range(srcMembers[slug]) \ StoredLogins(slug) # {}

\* C30: a member whose role lookup failed is dropped from the team's member
\* list; the team is still created (recorded in a dry run), the remaining
\* members get their membership calls in a live run, and the run ends with
\* the hierarchy report, which lists the remaining members.
C30_FailedRoleLookupDropsMember ==
  \A slug \in TeamSlugs :
    RoleLookupFailed(slug) =>
      /\ \A i \in 1..Len(teamMap[slug].members) : teamMap[slug].members[i] # NullMember
      /\ ~dryRun =>
           /\ slug \in CreatedTeams
           /\ \A login \in StoredLogins(slug) :
                \E i \in MembershipCalls(slug) : calls[i].arg = login
           /\ \A i \in MembershipCalls(slug) : calls[i].arg \in StoredLogins(slug)
      /\ pc = "done" =>
           /\ teamHierarchy.emitted
           /\ \E n \in 1..Len(teamHierarchy.value) :
                /\ teamHierarchy.value[n].name = slug
                /\ Len(teamHierarchy.value[n].members) = Cardinality(StoredLogins(slug))

(***************************************************************************)
(* The staging directory at the start of a live package migration.          *)
(***************************************************************************)
\* C31: a live package migration removes packages/ and makes it anew as its
\* first step, before the source packages are listed and before any request
\* or download: a run that goes on to its packages does so on an empty
\* directory, and as long as a file of an earlier run is under packages/
\* the run has sent no request and is at its first step or over.
C31_LiveRunStartsOnEmptyStaging ==
  /\ [][(~dryRun /\ pc = "fetchPackages" /\ pc' # "done") => staging' = {}]_vars
  /\ [](pc = "fetchPackages" => calls = <<>>)
  /\ []((~dryRun /\ StaleFile \in staging) =>
          (pc \in {"fetchPackages", "done"} /\ calls = <<>>))

\* A live run that went on to download into the directory it had cleared.
C31_Witness ==
  /\ ~dryRun
  /\ pc = "done"
  /\ staging # {}
  /\ StaleFile \notin staging
  /\ \E i \in 1..Len(calls) : calls[i].op = "download"

(***************************************************************************)
(* The login and role of a replayed membership.                             *)
(***************************************************************************)
\* C32: the m-th membership call of a created team carries, for the m-th
\* member fetched from the source, the mapped target login when the
\* username mapping has an entry for the member's login and the member's own
\* login otherwise, and the member's source role.
C32_MembershipUsesMappedLogin ==
  (varImpl = "none" /\ ~dryRun) =>
    \A i \in CreateCalls :
      (calls[i].ok /\ calls[i].team \in DOMAIN teamMap) =>
        LET fetched == teamMap[calls[i].team].members
        IN \A m \in 1..Len(fetched) :
             /\ i + m \in MembershipCalls(calls[i].team)
             /\ calls[i + m].arg = (IF fetched[m].login \in DOMAIN usernameMappings
                                    THEN usernameMappings[fetched[m].login]
                                    ELSE fetched[m].login)
             /\ calls[i + m].value = fetched[m].role

\* A membership call for a member whose login the mapping replaces.
C32_Witness ==
  /\ ~dryRun
  /\ \E i \in CreateCalls :
       /\ calls[i].ok
       /\ calls[i].team \in DOMAIN teamMap
       /\ \E m \in 1..Len(teamMap[calls[i].team].members) :
            LET login == teamMap[calls[i].team].members[m].login
            IN /\ login \in DOMAIN usernameMappings
               /\ calls[i + m].op = "addOrUpdateMembershipForUserInOrg"
               /\ calls[i + m].arg = usernameMappings[login]
               /\ calls[i + m].arg # login

(***************************************************************************)
(* The headers of a Maven/Gradle upload (src/migrations/packages.js        *)
(* getUploadHeaders, called by uploadMavenFilesParallel and                *)
(* uploadPackageFiles for every file they PUT).                            *)
(*                                                                         *)
(* A file name is the sequence of its characters.  In these runs atSource  *)
(* is the file under packages/ that is uploaded: its name and the length   *)
(* of its content; calls holds the PUT request with its headers.           *)
(***************************************************************************)
MaxStem == 2
MaxContentLength == 2

DotPom == <<".", "p", "o", "m">>
DotJar == <<".", "j", "a", "r">>

\* String.prototype.includes
includes(str, searchString) ==
  \E at \in 0..(Len(str) - Len(searchString)) :
    SubSeq(str, at + 1, at + Len(searchString)) = searchString

\* String.prototype.endsWith
endsWith(str, searchString) ==
  /\ Len(searchString) <= Len(str)
  /\ \A i \in 1..Len(searchString) :
       str[Len(str) - Len(searchString) + i] = searchString[i]

\* The headers chosen by the extension wherever it stands in the name.
headersByInclusion(file, contentLength) ==
  [Authorization |-> "token TARGET_TOKEN",
   ContentLength |-> contentLength,
   ContentType |-> IF includes(file, DotPom) THEN "application/xml"
                   ELSE IF includes(file, DotJar) THEN "application/java-archive"
                   ELSE "application/octet-stream"]

\* getUploadHeaders(file, fileContent)
getUploadHeaders(file, contentLength) ==
  [Authorization |-> "token TARGET_TOKEN",
   ContentLength |-> contentLength,
   ContentType |-> IF endsWith(file, DotPom) THEN "application/xml"
                   ELSE IF endsWith(file, DotJar) THEN "application/java-archive"
                   ELSE "application/octet-stream"]

\* Artifact names: a stem of up to MaxStem characters followed by one of the
\* endings a Maven repository holds, and some that only resemble them.
Stems == UNION {[1..n -> {"a", "."}] : n \in 0..MaxStem}

Endings ==
  {<<>>, DotPom, DotJar,
   DotPom \o <<".", "m", "d", "5">>, DotJar \o <<".", "m", "d", "5">>,
   <<"p", "o", "m">>, <<"j", "a", "r">>,
   <<".", "P", "O", "M">>, <<".", "J", "A", "R">>,
   DotPom \o <<"x">>, DotJar \o DotPom, DotPom \o DotJar,
   <<".", "x", "m", "l">>, <<".", "m", "o", "d", "u", "l", "e">>}

FileNames == {stem \o ending : stem \in Stems, ending \in Endings}

InitUploadHeaders ==
  /\ pc = "put"
  /\ dryRun = FALSE
  /\ calls = <<>>
  /\ \E file \in FileNames, length \in 0..MaxContentLength :
       atSource = [file |-> file, length |-> length]
  /\ yielded = <<>>
  /\ TeamsIdle
  /\ VariablesIdle
  /\ CliIdle
  /\ SecretsIdle
  /\ PackagesIdle

\* The PUT of one file: readFileSync, getUploadHeaders, myFetch.
PutFile ==
  /\ pc = "put"
  /\ calls' = <<[op |-> "PUT", file |-> atSource.file,
                 headers |-> getUploadHeaders(atSource.file, atSource.length)]>>
  /\ pc' = "done"
  /\ UNCHANGED <<dryRun, listingVars, cliVars, secretVars, packageVars, teamVars, variableVars>>

NextUploadHeaders == PutFile

SpecUploadHeaders == InitUploadHeaders /\ [][NextUploadHeaders]_vars

LastFour(file) == IF Len(file) < 4 THEN <<>> ELSE SubSeq(file, Len(file) - 3, Len(file))

\* C33: the Content-Type of every PUT is application/xml when the file name
\* ends in .pom, application/java-archive when it ends in .jar, and
\* application/octet-stream in every other case.
C33_ContentTypeFromExtension ==
  \A i \in 1..Len(calls) :
    calls[i].op = "PUT" =>
      calls[i].headers.ContentType =
        (CASE LastFour(calls[i].file) = <<".", "p", "o", "m">> -> "application/xml"
           [] LastFour(calls[i].file) = <<".", "j", "a", "r">> -> "application/java-archive"
           [] OTHER -> "application/octet-stream")

\* A checksum file of a .pom, uploaded as an octet stream.
C33_Witness ==
  \E i \in 1..Len(calls) :
    /\ calls[i].op = "PUT"
    /\ includes(calls[i].file, DotPom)
    /\ ~endsWith(calls[i].file, DotPom)
    /\ calls[i].headers.ContentType = "application/octet-stream"


(***************************************************************************)
(* The report of migrateVariables and the calls of the run.                *)
(***************************************************************************)
\* A create call is awaited, or a listing whose answer will start create
\* calls and report entries is awaited.
VariableWorkOutstanding ==
  \/ \E it \in VarItems : varTask[it] = "pending"
  \/ orgTask = "listing"
  \/ \E r \in srcRepos : perRepo[r] = "listing"

\* C34: the report of the current migrateVariables is printed only after
\* every create call of the run has completed: once it is printed no call
\* is pending or still to be issued and the report lists are what was
\* printed, also when the repository listing fails while the organization
\* variables are migrated.
C34_ReportPrintedAfterEveryCreate ==
  (varImpl = "current" /\ printed.emitted) =>
    /\ ~VariableWorkOutstanding
    /\ variableMigrations = printed.value


\* The source variables a run has enumerated: those of the listings that
\* were answered.
EnumeratedVariables == {it \in VarItems : varTask[it] # "idle"}

\* The two lists of a report hold, for every variable, what the outcome of
\* its task calls for: one entry in variables after a create call that
\* returned (or a task that sent none), one entry in errors after a create
\* call that threw, and nothing else.
ListsMatchOutcomes(report) ==
  \A it \in VarItems :
    /\ report.variables[it] = IF varTask[it] \in {"created", "done"} THEN 1 ELSE 0
    /\ report.errors[it] = IF varTask[it] = "refused" THEN 1 ELSE 0

\* The run is over: the report is printed and nothing is awaited any more.
VariableRunEnded == printed.emitted /\ ~VariableWorkOutstanding

\* In every state of a live run of the current definition one create call
\* has been sent for every enumerated variable and the lists of the
\* variableMigrations object match the outcomes.
ListsInMemoryMatchOutcomes ==
  (~dryRun /\ varImpl = "current") =>
    /\ \A it \in VarItems :
         /\ createCalls[it] = IF it \in EnumeratedVariables THEN 1 ELSE 0
         /\ varTask[it] # "done"
    /\ ListsMatchOutcomes(variableMigrations)

\* C35: in a live run, whatever the order in which the listings and the
\* create calls are answered, the current definition sends one create call
\* for every variable it has enumerated, every variable whose create call
\* returned has one entry in variables and none in errors, every variable
\* whose create call threw has one entry in errors and none in variables,
\* and a variable whose call is awaited has no entry; at the end of the run
\* the printed report holds the same.
C35_EachVariableReportedOnce ==
  /\ ListsInMemoryMatchOutcomes
  /\ (~dryRun /\ varImpl = "current" /\ VariableRunEnded) =>
       ListsMatchOutcomes(printed.value)


(***************************************************************************)
(* The chunking loops of downloadMavenFilesParallel and                    *)
(* uploadMavenFilesParallel for an arbitrary MAVEN_CONCURRENCY             *)
(* (src/migrations/packages.js:301-314, 349-361).                          *)
(*                                                                         *)
(* In these runs atSource is the input (the setting, the number of files,  *)
(* which of the two functions runs) and                                    *)
(* yielded is the loop's state: the parsed concurrency, the index i and    *)
(* the chunks pushed so far; calls holds the request of every file of a    *)
(* processed chunk.                                                        *)
(***************************************************************************)
MaxFileList == 3
MaxChunks == 5

FileList(n) == [f \in 1..n |-> f]

\* Values of MAVEN_CONCURRENCY, each with the text it is the code units of.
ConcurrencySettings ==
  {[set |-> FALSE, text |-> <<>>]} \cup
  {[set |-> TRUE, text |-> t] :
     t \in {<<>>,                                  \* the empty string
            <<48>>, <<49>>, <<50>>, <<51>>, <<53>>,  \* 0 1 2 3 5
            <<45, 49>>, <<45, 50>>, <<43, 50>>,     \* -1 -2 +2
            <<50, 46, 53>>, <<50, 120>>,            \* 2.5 2x
            <<50, 101, 51>>, <<48, 50>>,            \* 2e3 02
            <<97, 98, 99>>, <<120, 50>>,            \* abc x2
            <<45>>, <<32>>,                         \* - and one space
            <<32, 50>>, <<9, 50>>, <<10, 50>>,      \* 2 after space, tab, line feed
            <<11, 50>>, <<160, 50>>,                \* 2 after vertical tab, U+00A0
            <<5760, 50>>, <<8195, 50>>,             \* 2 after U+1680, U+2003
            <<8232, 50>>, <<12288, 50>>,            \* 2 after U+2028, U+3000
            <<65279, 50>>,                          \* 2 after U+FEFF
            <<6158, 50>>, <<8203, 50>>,             \* 2 after U+180E, U+200B
            <<65298>>,                              \* the full-width digit U+FF12
            <<32, 9, 45, 49>>,                      \* -1 after space and tab
            <<48, 120, 50>>, <<48, 88, 97>>,        \* 0x2 0Xa
            <<48, 120, 49, 48>>, <<48, 120>>,       \* 0x10 0x
            <<45, 48, 120, 50>>, <<48, 120, 103>>,  \* -0x2 0xg
            <<48, 120, 55, 102, 102, 102, 102, 102, 102, 102>>,      \* 0x7fffffff
            <<57, 57, 57, 57, 57, 57, 57, 57, 57, 57, 57>>,          \* 99999999999
            <<45, 57, 57, 57, 57, 57, 57, 57, 57, 57, 57, 57>>,      \* -99999999999
            <<48, 48, 48, 48, 48, 48, 48, 48, 48, 48, 50>>}}         \* 00000000002

InitChunking ==
  /\ pc = "settings"
  /\ dryRun = FALSE
  /\ calls = <<>>
  /\ \E setting \in ConcurrencySettings, n \in 0..MaxFileList, op \in {"download", "upload"} :
       atSource = [setting |-> setting, files |-> FileList(n), op |-> op]
  /\ yielded = <<>>
  /\ TeamsIdle
  /\ VariablesIdle
  /\ CliIdle
  /\ SecretsIdle
  /\ PackagesIdle

\* const concurrency = parseInt(process.env.MAVEN_CONCURRENCY || '5');
\* const chunks = []; let i = 0.  The download function creates
\* packages/<name> in between (fs.mkdirSync), and is left when that throws.
ParseConcurrency ==
  /\ pc = "settings"
  /\ yielded' = [concurrency |-> mavenConcurrency(atSource.setting), i |-> Num(0),
                 chunks |-> <<>>, next |-> 1]
  /\ \E made \in BOOLEAN :
       /\ atSource.op = "upload" => made
       /\ pc' = IF made THEN "chunking" ELSE "rejected"
  /\ UNCHANGED <<dryRun, calls, atSource, cliVars, secretVars, packageVars, teamVars,
                 variableVars>>

\* One evaluation of `i < files.length`: either one more pass of the loop
\* body, chunks.push(files.slice(i, i + concurrency)); i += concurrency, or
\* the end of the loop.  Passes beyond MaxChunks are not followed.
ChunkingStep ==
  /\ pc = "chunking"
  /\ IF LessThan(yielded.i, Num(Len(atSource.files)))
     THEN /\ Len(yielded.chunks) < MaxChunks
          /\ yielded' =
               [yielded EXCEPT
                  !.chunks = Append(@, slice(atSource.files, yielded.i,
                                             Plus(yielded.i, yielded.concurrency))),
                  !.i = Plus(@, yielded.concurrency)]
          /\ pc' = pc
     ELSE /\ pc' = "chunked"
          /\ UNCHANGED yielded
  /\ UNCHANGED <<dryRun, calls, atSource, cliVars, secretVars, packageVars, teamVars,
                 variableVars>>

\* for (const chunk of chunks) await Promise.all(chunk.map(...)): the
\* requests of the next chunk, one per file, and the outcome of its
\* Promise.all.  When a file of the chunk fails, its catch rethrows, the
\* Promise.all rejects and the function is left with the chunks that
\* follow unprocessed; after the last chunk the function returns.
ProcessNextChunk ==
  /\ pc = "chunked"
  /\ IF yielded.next <= Len(yielded.chunks)
     THEN /\ calls' = calls \o [k \in 1..Len(yielded.chunks[yielded.next]) |->
                                  [op |-> atSource.op,
                                   file |-> yielded.chunks[yielded.next][k],
                                   wave |-> yielded.next]]
          /\ yielded' = [yielded EXCEPT !.next = @ + 1]
          /\ \E ok \in BOOLEAN :
               /\ yielded.chunks[yielded.next] = <<>> => ok
               /\ pc' = IF ok THEN pc ELSE "rejected"
     ELSE /\ pc' = "done"
          /\ UNCHANGED <<calls, yielded>>
  /\ UNCHANGED <<dryRun, atSource, cliVars, secretVars, packageVars, teamVars, variableVars>>

NextChunking ==
  \/ ParseConcurrency
  \/ ChunkingStep
  \/ ProcessNextChunk

SpecChunking == InitChunking /\ [][NextChunking]_vars

RECURSIVE Flatten(_)
Flatten(lists) == IF lists = <<>> THEN <<>> ELSE Head(lists) \o Flatten(Tail(lists))

\* C36: whatever MAVEN_CONCURRENCY is set to, the chunking loop ends (it
\* never makes more passes than there are files), the chunks it leaves are
\* the file list cut into consecutive pieces, and at the end of the function
\* every file of the list has been requested exactly once.
C36_ChunksPartitionFileList ==
  /\ pc = "chunking" => Len(yielded.chunks) <= Len(atSource.files)
  /\ pc = "chunked" => Flatten(yielded.chunks) = atSource.files
  /\ pc = "done" =>
       \A f \in 1..Len(atSource.files) :
         Cardinality({k \in 1..Len(calls) : calls[k].file = f}) = 1


\* C37: in a live run of the IdP-group variant every team whose teams.create
\* call succeeded is in the team map, and one membership call has been sent
\* for each of its members, also when updateSyncGroupMappings failed for it.
C37_CreatedIdpTeamRecordedAndReplayed ==
  (~dryRun /\ \E k \in 1..Len(calls) : calls[k].op = "listIdpGroupsForOrg") =>
    \A i \in 1..Len(calls) :
      (calls[i].op = "teams.create" /\ calls[i].ok) =>
        /\ calls[i].team \in DOMAIN teamMap
        /\ Cardinality({j \in 1..Len(calls) :
                          /\ calls[j].op = "addOrUpdateMembershipForUserInOrg"
                          /\ calls[j].team = calls[i].team})
             = Len(teamMap[calls[i].team].members)


\* The create-or-update calls sent for the secret of CSV row i.
SecretWrites(i) ==
  {k \in 1..Len(calls) :
     /\ calls[k].op \in {"createOrUpdateRepoSecret", "createOrUpdateOrgSecret"}
     /\ calls[k].secret_name = secretsCsv.rows[i].name}

\* C38: when the live secret migration has gone through the rows of the CSV,
\* every row has either one create-or-update call that the destination
\* accepted, or one error logged for it (with no call, or with the one call
\* the destination rejected); no row is left without either.
C38_EveryRowWrittenOrLogged ==
  (~dryRun /\ pc = "done" /\ Len(secretTask) = Len(secretsCsv.rows)) =>
    \A i \in 1..Len(secretsCsv.rows) :
      \/ Cardinality(SecretWrites(i)) = 1 /\ ~secretTask[i].logged
      \/ Cardinality(SecretWrites(i)) <= 1 /\ secretTask[i].logged


(***************************************************************************)
(* migrateLFS (src/migrations/teams.js:518-548; the legacy definition in   *)
(* src/unnamed/part_004:90-123 has the same try/finally around the same    *)
(* commands).                                                              *)
(*                                                                         *)
(* In these runs atSource is the list of repositories that use LFS and     *)
(* yielded is the loop's state: the index of the repository being          *)
(* processed, the temporary directories that exist, and whether a command  *)
(* of the current repository threw.  calls holds the commands run.         *)
(***************************************************************************)
MaxLfsRepos == 3

LfsCommands == <<"cloneRepository", "updateRemoteUrl", "migrateLFSPushGit">>

\* mkdtempSync(join(tmpdir(), `repo-migration-${repoName}`)): a directory of
\* its own for every repository.
TempDir(repoName) == <<"repo-migration", repoName>>

InitLfsMigration ==
  /\ pc = "lfs-loop"
  /\ dryRun \in BOOLEAN
  /\ calls = <<>>
  /\ atSource \in {[i \in 1..n |-> i] : n \in 0..MaxLfsRepos}
  /\ yielded = [repo |-> 1, tempDirs |-> {}, threw |-> FALSE]
  /\ TeamsIdle
  /\ VariablesIdle
  /\ CliIdle
  /\ SecretsIdle
  /\ PackagesIdle

\* The head of the loop body: a dry run logs and continues; a live run makes
\* the temporary directory.  A throw of mkdtempSync is logged by the outer
\* catch and the loop goes on.  After the last repository migrateLFS returns.
NextLfsRepository ==
  /\ pc = "lfs-loop"
  /\ IF yielded.repo > Len(atSource)
     THEN /\ pc' = "lfs-done"
          /\ UNCHANGED yielded
     ELSE IF dryRun
     THEN /\ yielded' = [yielded EXCEPT !.repo = @ + 1]
          /\ pc' = pc
     ELSE \E made \in BOOLEAN :
            IF made
            THEN /\ yielded' = [yielded EXCEPT
                                  !.tempDirs = @ \cup {TempDir(atSource[yielded.repo])},
                                  !.threw = FALSE]
                 /\ pc' = LfsCommands[1]
            ELSE /\ yielded' = [yielded EXCEPT !.repo = @ + 1]
                 /\ pc' = pc
  /\ UNCHANGED <<dryRun, calls, atSource, cliVars, secretVars, packageVars, teamVars,
                 variableVars>>

\* cloneRepository, updateRemoteUrl or migrateLFSPushGit: the command runs
\* to its end (execSync); when it throws the rest of the try is skipped.
RunLfsCommand ==
  /\ \E k \in 1..Len(LfsCommands) :
       /\ pc = LfsCommands[k]
       /\ \E ok \in BOOLEAN :
            /\ calls' = Append(calls, [op |-> pc, repo |-> atSource[yielded.repo], ok |-> ok])
            /\ yielded' = [yielded EXCEPT !.threw = ~ok]
            /\ pc' = IF ok /\ k < Len(LfsCommands) THEN LfsCommands[k + 1] ELSE "finally"
  /\ UNCHANGED <<dryRun, atSource, cliVars, secretVars, packageVars, teamVars, variableVars>>

\* finally { rmSync(tempDir, { recursive: true }) }, then the outer catch
\* when a command or rmSync threw, then the next pass of the loop.  rmSync
\* throws when something of the clone cannot be removed: the directory is
\* still there then.
RemoveTempDir ==
  /\ pc = "finally"
  /\ \E removed \in BOOLEAN :
       yielded' = [yielded EXCEPT
                     !.tempDirs = IF removed THEN @ \ {TempDir(atSource[yielded.repo])} ELSE @,
                     !.threw = @ \/ ~removed,
                     !.repo = @ + 1]
  /\ pc' = "lfs-loop"
  /\ UNCHANGED <<dryRun, calls, atSource, cliVars, secretVars, packageVars, teamVars,
                 variableVars>>

NextLfsMigration ==
  \/ NextLfsRepository
  \/ RunLfsCommand
  \/ RemoveTempDir

SpecLfsMigration == InitLfsMigration /\ [][NextLfsMigration]_vars

\* C39: whenever migrateLFS turns to the next repository, and when it
\* returns, no temporary directory is left, whichever of the clone, the
\* remote update and the LFS push succeeded or threw; while a repository is
\* processed only its own directory exists.
C39_TempDirRemovedBeforeNextRepo ==
  /\ pc \in {"lfs-loop", "lfs-done"} => yielded.tempDirs = {}
  /\ pc \notin {"lfs-loop", "lfs-done"} =>
       yielded.tempDirs = {TempDir(atSource[yielded.repo])}


(***************************************************************************)
(* checkLFSUsage (src/migrations/teams.js:461-510).                        *)
(*                                                                         *)
(* The repository has a root directory "" that may hold a .gitattributes   *)
(* file and a subdirectory "d", which may hold the same.  In these runs    *)
(* atSource is maxDepth and yielded is the state of the search: the stack  *)
(* of searchDirectory calls (the last one is running, the others await     *)
(* it), the number of listing requests sent per path, and what             *)
(* searchDirectory() returned.  pc is the position of the running call.    *)
(***************************************************************************)
maxAttempts == 10
MaxDepthSetting == 2

LfsPaths == {"", "d"}

\* What a listing can hold, in the order the items are scanned.
DirectoryListings ==
  {<<>>, <<"attrs">>, <<"dir">>, <<"attrs", "dir">>, <<"dir", "attrs">>}

NotReturned == [returned |-> FALSE, value |-> "", attempts |-> 0]

SearchCall(path, depth) == [path |-> path, depth |-> depth, attempts |-> 0, pending |-> <<>>]

InitLfsCheck ==
  /\ pc = "listing"
  /\ dryRun \in BOOLEAN
  /\ calls = <<>>
  /\ atSource \in 1..MaxDepthSetting
  /\ yielded = [stack |-> <<SearchCall("", 0)>>,
                listings |-> [p \in LfsPaths |-> 0],
                result |-> NotReturned]
  /\ TeamsIdle
  /\ VariablesIdle
  /\ CliIdle
  /\ SecretsIdle
  /\ PackagesIdle

\* The stack with its running call replaced.
Running(stack) == stack[Len(stack)]
WithRunning(stack, call) == [stack EXCEPT ![Len(stack)] = call]

\* `return value` of the running call.  The first call's value is what
\* checkLFSUsage returns.  An awaiting call that gets true returns true in
\* its turn; on any other value (`if (hasLFS)` is false for false and for
\* undefined) it goes on with its next item.
Returns(stack, listings, value) ==
  IF Len(stack) = 1 \/ value = "true"
  THEN /\ yielded' = [stack |-> <<>>, listings |-> listings,
                      result |-> [returned |-> TRUE, value |-> value,
                                  attempts |-> stack[1].attempts]]
       /\ pc' = "returned"
  ELSE LET parent == stack[Len(stack) - 1]
           resumed == [parent EXCEPT !.pending = Tail(@)]
       IN /\ yielded' = [stack |-> Append(SubSeq(stack, 1, Len(stack) - 2), resumed),
                         listings |-> listings, result |-> yielded.result]
          /\ pc' = "scanning"

\* One pass of `while (attempts < maxAttempts)` up to the answer of
\* repos.getContent for the directory.  A rejected request: attempts++,
\* then a second's wait and the next pass, or `return false` at the last
\* attempt.  An answer slower than the timeout: attempts++; continue, and
\* when that ends the loop the function body ends without a return
\* statement.  Otherwise the items are scanned.
ListDirectory ==
  /\ pc = "listing"
  /\ LET call == Running(yielded.stack)
         counted == [yielded.listings EXCEPT ![call.path] = @ + 1]
         retried == WithRunning(yielded.stack, [call EXCEPT !.attempts = @ + 1])
     IN /\ call.attempts < maxAttempts
        /\ \E answer \in {<<"rejected">>, <<"slow">>} \cup DirectoryListings :
             IF answer \in {<<"rejected">>, <<"slow">>}
             THEN IF call.attempts + 1 < maxAttempts
                  THEN /\ yielded' = [yielded EXCEPT !.stack = retried, !.listings = counted]
                       /\ pc' = pc
                  ELSE Returns(retried, counted,
                               IF answer = <<"rejected">> THEN "false" ELSE "undefined")
             ELSE /\ yielded' = [yielded EXCEPT
                                   !.stack = WithRunning(@, [call EXCEPT !.pending = answer]),
                                   !.listings = counted]
                  /\ pc' = "scanning"
  /\ UNCHANGED <<dryRun, calls, atSource, cliVars, secretVars, packageVars, teamVars,
                 variableVars>>

\* The next step of `for (const item of data)`: the content of
\* .gitattributes is fetched (a rejection lands in the catch of the pass),
\* a subdirectory is searched when depth + 1 < maxDepth, and after the last
\* item the call returns false.
ScanItem ==
  /\ pc = "scanning"
  /\ LET call == Running(yielded.stack)
         skipped == WithRunning(yielded.stack, [call EXCEPT !.pending = Tail(@)])
         retried == WithRunning(yielded.stack, [call EXCEPT !.attempts = @ + 1])
     IN IF call.pending = <<>>
        THEN Returns(yielded.stack, yielded.listings, "false")
        ELSE IF Head(call.pending) = "attrs"
        THEN \E content \in {"filter=lfs", "text", "rejected"} :
               IF content = "filter=lfs"
               THEN Returns(yielded.stack, yielded.listings, "true")
               ELSE IF content = "text"
               THEN /\ yielded' = [yielded EXCEPT !.stack = skipped]
                    /\ pc' = pc
               ELSE IF call.attempts + 1 < maxAttempts
               THEN /\ yielded' = [yielded EXCEPT !.stack = retried]
                    /\ pc' = "listing"
               ELSE Returns(retried, yielded.listings, "false")
        ELSE IF call.depth + 1 >= atSource
        THEN /\ yielded' = [yielded EXCEPT !.stack = skipped]
             /\ pc' = pc
        ELSE /\ yielded' = [yielded EXCEPT
                              !.stack = Append(@, SearchCall("d", call.depth + 1))]
             /\ pc' = "listing"
  /\ UNCHANGED <<dryRun, calls, atSource, cliVars, secretVars, packageVars, teamVars,
                 variableVars>>

NextLfsCheck ==
  \/ ListDirectory
  \/ ScanItem

SpecLfsCheck == InitLfsCheck /\ [][NextLfsCheck]_vars

\* C40: checkLFSUsage sends at most maxAttempts listing requests for a
\* directory, and when the attempts of the root directory are used up it
\* returns the boolean false.
C40_AtMostTenAttemptsThenFalse ==
  /\ \A p \in LfsPaths : yielded.listings[p] <= maxAttempts
  /\ (yielded.result.returned /\ yielded.result.attempts = maxAttempts) =>
       yielded.result.value = "false"

====
